---- MODULE Spec2Model ----
(***************************************************************************)
(* Verification model of the Config Sync reconciler-manager and per-sync   *)
(* reconciler pipeline (kpt-config-sync).                                  *)
(*                                                                         *)
(* The module holds one state machine per component, each with its own     *)
(* specification over the shared variable tuple:                           *)
(*   SpecStatus    the parser's writes of RootSync/RepoSync status         *)
(*   SpecManager   RepoSyncReconciler.Reconcile and its cleanup            *)
(*   SpecRoot      the shared root ClusterRoleBinding                      *)
(*   SpecWebhook   the admission webhook Validator                         *)
(*   SpecHydrator  the hydration controller                                *)
(*   SpecParser    the root parser's implicit namespaces                    *)
(* A component's specification keeps the other components' variables at    *)
(* their idle values.                                                      *)
(***************************************************************************)
EXTENDS Integers, Sequences, FiniteSets, TLC

VARIABLES
    \* ---- parser status writes (pkg/parse root.go / namespace.go) ----
    rsStatus,      \* .status of the RootSync/RepoSync stored on the API server
    lastOp,        \* outcome of the last status write call (observation only)
    \* ---- reconciler-manager, RepoSync controller ----
    repoSyncObjs,  \* RepoSync objects on the API server, by key
    managed,       \* owned objects on the API server, by RepoSync key
    deployment,    \* the reconciler Deployment of each RepoSync: its fields
    roleBinding,   \* the shared RoleBinding of each namespace: subject list or Absent
    repoSyncs,     \* RepoSyncReconciler.repoSyncs, the in-memory set
    lastReconciled,\* reconcilerBase: keys whose last status write is recorded
    lastRec,       \* outcome of the last Reconcile call (observation only)
    \* ---- reconciler-manager, RootSync controller ----
    rootSyncObjs,  \* RootSync objects on the API server, by name
    rootManaged,   \* owned per-RootSync objects, by name
    crb,           \* the shared ClusterRoleBinding: subject list or Absent
    lastRoot,      \* outcome of the last RootSync Reconcile call (observation only)
    \* ---- admission webhook ----
    req,           \* the admission request under review
    resp,          \* the response Handle gave to it
    \* ---- hydration controller ----
    fs,            \* the shared /repo filesystem
    hyd,           \* the hydrator's position inside a timer tick
    hist,          \* rendering attempts made so far (observation only)
    \* ---- root parser, implicit namespaces ----
    parseIn,       \* the validated objects and the Namespaces of the cluster
    parseOut,      \* what addImplicitNamespaces returned
    \* ---- RepoSyncReconciler.lock around Reconcile ----
    lockHolder,    \* the caller that holds r.lock, or NoHolder
    calls,         \* the Reconcile calls under way: where each is, and what it read
    sharedRB,      \* the RoleBinding of the namespace as the API server holds it
    \* ---- parser status writers under p.mux ----
    muxHolder,     \* the status writer that holds p.mux, or NoHolder
    writers,       \* the status write calls under way: where each is
    statusObj,     \* the status of the RootSync on the API server: who wrote it last
    \* ---- notification dispatcher boundary ----
    notifSync,     \* the *Sync as the notification controller sees it: lastSyncedCommit, subscription, notified annotation
    posts,         \* the notifications the destination received, per commit
    events,        \* the event sequence handed to the event callback, or NoEvent
    notification,  \* the status of the Notification object and what the last callback did
    \* ---- one status update with its retries after 413 ----
    retry          \* the status update under way: denominator, attempts made, sizes, result

statusVars == <<rsStatus, lastOp>>
managerVars == <<repoSyncObjs, managed, deployment, roleBinding, repoSyncs, lastReconciled,
                 lastRec>>
rootVars == <<rootSyncObjs, rootManaged, crb, lastRoot>>
webhookVars == <<req, resp>>
hydratorVars == <<fs, hyd, hist>>
parserVars == <<parseIn, parseOut>>
reconcileLockVars == <<lockHolder, calls, sharedRB>>
statusLockVars == <<muxHolder, writers, statusObj>>
notificationVars == <<notifSync, posts, events, notification>>
retryVars == <<retry>>
vars == <<rsStatus, lastOp, repoSyncObjs, managed, deployment, roleBinding, repoSyncs,
          lastReconciled, lastRec, rootSyncObjs, rootManaged, crb, lastRoot,
          req, resp, fs, hyd, hist, parseIn, parseOut,
          lockHolder, calls, sharedRB,
          muxHolder, writers, statusObj,
          notifSync, posts, events, notification,
          retry>>

NoCommit == ""
\* An object the API server does not hold.
Absent == [exists |-> FALSE]
\* A RoleBinding or ClusterRoleBinding the API server does not hold.
NoBinding == [exists |-> FALSE, subjects |-> <<>>]
Binding(subjects) == [exists |-> TRUE, subjects |-> subjects]

(***************************************************************************)
(* PART 1.  Parser status writes.                                          *)
(***************************************************************************)

\* Largest number of errors one pipeline stage reports in one status.
MaxErrs == 1
\* Number of distinct management conflicts the remediator can report.
MaxConflicts == 1
\* Width of Go's int on the 64-bit build: denominator*2 wraps after 63 doublings.
IntBits == 63

Commits == {"c1", "c2"}

\* denominator is kept as its exponent k: denominator = 2^k for k < IntBits and
\* a non-positive number (the wrapped product) for k = IntBits.
defaultDenominator == 0

RECURSIVE halve(_, _)
\* len / 2^k, Go integer division.
halve(len, k) == IF k = 0 \/ len = 0 THEN len ELSE halve(len \div 2, k - 1)

\* denominator*2 for the retry after a 413.  Once len/denominator is 0 with
\* denominator > 1, every later retry sends the same object and gets the same
\* 413, up to the doubling that wraps: the chain is cut short to that last call.
double(k, len) == IF k > 0 /\ halve(len, k) = 0 THEN IntBits ELSE k + 1

\* cse[len(cse) - len(cse)/denominator :], the last errors instead of the first.
truncateErrorsTail(cse, k) == SubSeq(cse, Len(cse) - halve(Len(cse), k) + 1, Len(cse))

\* cse[0 : len(cse)/denominator]
truncateErrors(cse, k) == SubSeq(cse, 1, halve(Len(cse), k))

\* status.ToCSE of the n errors a stage reports.
ToCSE(prefix, n) == [i \in 1..n |-> <<prefix, i>>]

NilSummary == [isNil |-> TRUE, totalCount |-> 0, truncated |-> FALSE, errorCountAfterTruncation |-> 0]

mkSummary(total, trunc, after) ==
    [isNil |-> FALSE, totalCount |-> total, truncated |-> trunc, errorCountAfterTruncation |-> after]

NoCondition == [set |-> FALSE]

InitStatus ==
    [lastCommit |-> NoCommit,
     source |-> [commit |-> NoCommit, errors |-> <<>>, errorSummary |-> NilSummary, lastUpdate |-> FALSE],
     rendering |-> [commit |-> NoCommit, message |-> "", errors |-> <<>>, errorSummary |-> NilSummary, lastUpdate |-> FALSE],
     sync |-> [commit |-> NoCommit, errors |-> <<>>, errorSummary |-> NilSummary, lastUpdate |-> FALSE],
     lastSyncedCommit |-> NoCommit,
     syncing |-> NoCondition]

\* rootsync.SetSyncing / reposync.SetSyncing: the Syncing condition.
SetSyncing(st, status, reason, message, commit, errorSources, errorSummary) ==
    [st EXCEPT !.syncing = [set |-> TRUE, status |-> status, reason |-> reason, message |-> message,
                            commit |-> commit, errorSources |-> errorSources,
                            errorSummary |-> errorSummary]]

\* compare.IgnoreTimestampUpdates: equality with the LastUpdate fields left out.
IgnoreTimestamps(st) ==
    [st EXCEPT !.source.lastUpdate = FALSE, !.rendering.lastUpdate = FALSE, !.sync.lastUpdate = FALSE]

\* cmp.Equal replaced by a comparison that never finds two statuses equal.
StatusNeverEqual(a, b) == FALSE

StatusEqual(a, b) == IgnoreTimestamps(a) = IgnoreTimestamps(b)

\* Size of the object as the API server's request limit sees it: the retained errors.
StatusSize(st) == Len(st.source.errors) + Len(st.rendering.errors) + Len(st.sync.errors)

\* isRequestTooLargeError: the server answers 413 when the object exceeds its limit.
isRequestTooLarge(st, limit) == StatusSize(st) > limit

setLastCommit(st, commit) == [st EXCEPT !.lastCommit = commit]

setSyncStatusErrors(st, cse, k) ==
    [st EXCEPT !.sync.errorSummary = mkSummary(Len(cse), k # 0, 0),
               !.sync.errors = truncateErrors(cse, k)]

setSyncStatusFields(st, newStatus, k) ==
    LET s1 == [st EXCEPT !.sync.commit = newStatus.commit]
        s2 == setSyncStatusErrors(s1, newStatus.errs, k)
    IN [s2 EXCEPT !.sync.lastUpdate = TRUE]

summarizeErrorsUncounted(source, sync) ==
    [errorSources |-> (IF Len(sync.errors) > 0 THEN {"sync"} ELSE {}),
     errorSummary |-> mkSummary(0, FALSE, 0)]

summarizeErrors(source, sync) ==
    LET parts == <<source.errorSummary, sync.errorSummary>>
        live(i) == ~parts[i].isNil
    IN [errorSources |-> (IF Len(source.errors) > 0 THEN {"source"} ELSE {})
                          \cup (IF Len(sync.errors) > 0 THEN {"sync"} ELSE {}),
        errorSummary |->
            mkSummary((IF live(1) THEN parts[1].totalCount ELSE 0)
                          + (IF live(2) THEN parts[2].totalCount ELSE 0),
                      (live(1) /\ parts[1].truncated) \/ (live(2) /\ parts[2].truncated),
                      (IF live(1) THEN parts[1].errorCountAfterTruncation ELSE 0)
                          + (IF live(2) THEN parts[2].errorCountAfterTruncation ELSE 0))]

\* The test of part_001:627-630 that guards the assignment of LastSyncedCommit.
assignsLastSynced(st, newStatus) ==
    ~newStatus.syncing /\ summarizeErrors(st.source, st.sync).errorSummary.totalCount = 0

\* The status object setSyncStatusWithRetries hands to Status().Update.
syncStatusToWrite(st, newStatus, k) ==
    LET s1 == setSyncStatusFields(setLastCommit(st, newStatus.commit), newStatus, k)
        sum == summarizeErrors(s1.source, s1.sync)
    IN IF newStatus.syncing
       THEN SetSyncing(s1, TRUE, "Sync", "Syncing", s1.sync.commit, sum.errorSources, sum.errorSummary)
       ELSE LET s2 == IF assignsLastSynced(s1, newStatus)
                      THEN [s1 EXCEPT !.lastSyncedCommit = s1.sync.commit]
                      ELSE s1
            IN SetSyncing(s2, FALSE, "Sync", "Sync Completed", s2.sync.commit,
                          sum.errorSources, sum.errorSummary)

\* The result of one status write call: the status left on the server, how the
\* call returned ("written", "skipped", "error"), the exponent of the last
\* denominator used, and whether the written object had LastSyncedCommit assigned.
Outcome(st, result, k, assigned) ==
    [status |-> st, result |-> result, k |-> k, assigned |-> assigned]

\* srv is what the API server does during the call: limit (the object size that
\* still fits a request) and fail ("none", "get", or "update": the Update
\* request fails with an error other than 413).
RECURSIVE setSyncStatusWithRetries(_, _, _, _)
setSyncStatusWithRetries(st, newStatus, k, srv) ==
    IF k >= IntBits THEN Outcome(st, "error", k, FALSE)
    ELSE IF srv.fail = "get" THEN Outcome(st, "error", k, FALSE)
    ELSE LET new == syncStatusToWrite(st, newStatus, k) IN
         IF st.sync.lastUpdate /\ StatusEqual(st, new) THEN Outcome(st, "skipped", k, FALSE)
         ELSE IF srv.fail = "update" THEN Outcome(st, "error", k, FALSE)
         ELSE IF isRequestTooLarge(new, srv.limit)
              THEN setSyncStatusWithRetries(st, newStatus, double(k, Len(newStatus.errs)), srv)
         ELSE Outcome(new, "written", k,
                      assignsLastSynced(setSyncStatusFields(st, newStatus, k), newStatus))

setSourceStatusFields(st, newStatus, k) ==
    [st EXCEPT !.source.commit = newStatus.commit,
               !.source.errorSummary = mkSummary(Len(newStatus.errs), k # 0, halve(Len(newStatus.errs), k)),
               !.source.errors = truncateErrors(newStatus.errs, k),
               !.source.lastUpdate = TRUE]

RECURSIVE setSourceStatusWithRetries(_, _, _, _)
setSourceStatusWithRetries(st, newStatus, k, srv) ==
    IF k >= IntBits THEN Outcome(st, "error", k, FALSE)
    ELSE IF srv.fail = "get" THEN Outcome(st, "error", k, FALSE)
    ELSE LET s1 == setSourceStatusFields(setLastCommit(st, newStatus.commit), newStatus, k)
             new == SetSyncing(s1, s1.source.errorSummary.totalCount = 0, "Source", "Source",
                               newStatus.commit,
                               (IF Len(s1.source.errors) > 0 THEN {"source"} ELSE {}),
                               s1.source.errorSummary)
         IN
         IF st.source.lastUpdate /\ StatusEqual(st, new) THEN Outcome(st, "skipped", k, FALSE)
         ELSE IF srv.fail = "update" THEN Outcome(st, "error", k, FALSE)
         ELSE IF isRequestTooLarge(new, srv.limit)
              THEN setSourceStatusWithRetries(st, newStatus, double(k, Len(newStatus.errs)), srv)
         ELSE Outcome(new, "written", k, FALSE)

setRenderingStatusFields(st, newStatus, k) ==
    [st EXCEPT !.rendering.commit = newStatus.commit,
               !.rendering.message = newStatus.message,
               !.rendering.errorSummary = mkSummary(Len(newStatus.errs), k # 0, 0),
               !.rendering.errors = truncateErrors(newStatus.errs, k),
               !.rendering.lastUpdate = TRUE]

RECURSIVE setRenderingStatusWithRetires(_, _, _, _)
setRenderingStatusWithRetires(st, newStatus, k, srv) ==
    IF k >= IntBits THEN Outcome(st, "error", k, FALSE)
    ELSE IF srv.fail = "get" THEN Outcome(st, "error", k, FALSE)
    ELSE LET s1 == setRenderingStatusFields(setLastCommit(st, newStatus.commit), newStatus, k)
             new == SetSyncing(s1, s1.rendering.errorSummary.totalCount = 0, "Rendering",
                               newStatus.message, newStatus.commit,
                               (IF Len(s1.rendering.errors) > 0 THEN {"rendering"} ELSE {}),
                               s1.rendering.errorSummary)
         IN
         IF st.rendering.lastUpdate /\ StatusEqual(st, new) THEN Outcome(st, "skipped", k, FALSE)
         ELSE IF srv.fail = "update" THEN Outcome(st, "error", k, FALSE)
         ELSE IF isRequestTooLarge(new, srv.limit)
              THEN setRenderingStatusWithRetires(st, newStatus, double(k, Len(newStatus.errs)), srv)
         ELSE Outcome(new, "written", k, FALSE)

\* conflictErr.ToCSE() and conflictErr.CurrentManagerError().ToCSE() of conflict j.
ConflictCSE(j) == <<"KNV1060", j>>
ConflictPairCSE(j) == <<"KNV1060", j + MaxConflicts>>

\* prependRootSyncRemediatorStatus without the search for the same conflict.
RECURSIVE prependRootSyncRemediatorStatusAgain(_, _, _, _)
prependRootSyncRemediatorStatusAgain(st, conflictErrs, k, srv) ==
    IF k >= IntBits THEN Outcome(st, "error", k, FALSE)
    ELSE IF srv.fail = "get" THEN Outcome(st, "error", k, FALSE)
    ELSE LET errs == [i \in 1..Len(conflictErrs) |-> ConflictCSE(conflictErrs[i])]
             new == [setSyncStatusErrors(st, errs \o st.sync.errors, k) EXCEPT !.sync.lastUpdate = TRUE]
         IN
         IF Len(errs) = 0 THEN Outcome(st, "skipped", k, FALSE)
         ELSE IF srv.fail = "update" THEN Outcome(st, "error", k, FALSE)
         ELSE IF isRequestTooLarge(new, srv.limit)
              THEN prependRootSyncRemediatorStatusAgain(st, conflictErrs,
                                                        double(k, Len(errs \o st.sync.errors)), srv)
         ELSE Outcome(new, "written", k, FALSE)

RECURSIVE prependRootSyncRemediatorStatus(_, _, _, _)
prependRootSyncRemediatorStatus(st, conflictErrs, k, srv) ==
    IF k >= IntBits THEN Outcome(st, "error", k, FALSE)
    ELSE IF srv.fail = "get" THEN Outcome(st, "error", k, FALSE)
    ELSE LET found(j) == \E i \in 1..Len(st.sync.errors) :
                             st.sync.errors[i] \in {ConflictCSE(j), ConflictPairCSE(j)}
             fresh == SelectSeq(conflictErrs, LAMBDA j : ~found(j))
             errs == [i \in 1..Len(fresh) |-> ConflictCSE(fresh[i])]
             new == [setSyncStatusErrors(st, errs \o st.sync.errors, k) EXCEPT !.sync.lastUpdate = TRUE]
         IN
         IF Len(errs) = 0 THEN Outcome(st, "skipped", k, FALSE)
         ELSE IF srv.fail = "update" THEN Outcome(st, "error", k, FALSE)
         ELSE IF isRequestTooLarge(new, srv.limit)
              THEN prependRootSyncRemediatorStatus(st, conflictErrs, double(k, Len(errs \o st.sync.errors)), srv)
         ELSE Outcome(new, "written", k, FALSE)

\* What the API server may do during one call.
NoLimit == 3 * MaxErrs + MaxConflicts
Limits == 0..(MaxErrs - 1) \cup {NoLimit}
Servers ==
    [limit : Limits, fail : {"none"}] \cup [limit : {NoLimit}, fail : {"get", "update"}]

\* Lists of distinct conflicts the remediator hands over in one call.
ConflictLists ==
    {c \in UNION {[1..n -> 1..MaxConflicts] : n \in 0..MaxConflicts} :
        \A i, j \in 1..Len(c) : i # j => c[i] # c[j]}

NoOp == [op |-> "none", result |-> "none", k |-> 0, assigned |-> FALSE]

\* What is kept of a call: the writer is named only when it wrote.
Observe(op, out) ==
    [op |-> IF out.result = "written" THEN op ELSE "none",
     result |-> out.result, k |-> out.k, assigned |-> out.assigned]

StatusInit ==
    /\ rsStatus = InitStatus
    /\ lastOp = NoOp

\* root.setSourceStatus / namespace.setSourceStatus
setSourceStatus ==
    \E commit \in Commits, n \in 0..MaxErrs, srv \in Servers :
        LET out == setSourceStatusWithRetries(rsStatus,
                       [commit |-> commit, errs |-> ToCSE("source", n)], defaultDenominator, srv)
        IN /\ rsStatus' = out.status
           /\ lastOp' = Observe("source", out)

\* root.setRenderingStatus / namespace.setRenderingStatus; oldEqual is the
\* outcome of oldStatus.equal(newStatus) on the parser's cached status.
setRenderingStatus ==
    \E oldEqual \in BOOLEAN :
        IF oldEqual
        THEN /\ lastOp' = Observe("rendering", Outcome(rsStatus, "skipped", defaultDenominator, FALSE))
             /\ UNCHANGED rsStatus
        ELSE \E commit \in Commits, n \in 0..MaxErrs, srv \in Servers :
                LET newStatus == [commit |-> commit, errs |-> ToCSE("rendering", n),
                                  message |-> IF n = 0 THEN "RenderingSucceeded" ELSE "RenderingFailed"]
                    out == setRenderingStatusWithRetires(rsStatus, newStatus, defaultDenominator, srv)
                IN /\ rsStatus' = out.status
                   /\ lastOp' = Observe("rendering", out)

\* root.SetSyncStatus / namespace.SetSyncStatus
SetSyncStatus ==
    \E commit \in Commits, n \in 0..MaxErrs, syncing \in BOOLEAN, srv \in Servers :
        LET out == setSyncStatusWithRetries(rsStatus,
                       [commit |-> commit, errs |-> ToCSE("sync", n), syncing |-> syncing],
                       defaultDenominator, srv)
        IN /\ rsStatus' = out.status
           /\ lastOp' = Observe("sync", out)

\* The remediator's report of management conflicts to the RootSync status.
PrependRemediatorStatus ==
    \E c \in ConflictLists, srv \in Servers :
        LET out == prependRootSyncRemediatorStatus(rsStatus, c, defaultDenominator, srv)
        IN /\ rsStatus' = out.status
           /\ lastOp' = Observe("remediator", out)


\* C1: every status write that sets or changes status.lastSyncedCommit leaves
\* status.sync.errorSummary.totalCount = 0 and no sync errors in the written status.
C1_LastSyncedOnlyWithoutSyncErrors ==
    [][(rsStatus'.lastSyncedCommit # rsStatus.lastSyncedCommit
          \/ (lastOp'.assigned /\ lastOp'.result = "written"))
       => /\ ~rsStatus'.sync.errorSummary.isNil
          /\ rsStatus'.sync.errorSummary.totalCount = 0
          /\ Len(rsStatus'.sync.errors) = 0]_vars

\* C1 witness: a sync status write has moved lastSyncedCommit to a second commit
\* while an earlier write had recorded another one.
C1_Witness ==
    /\ lastOp.op = "sync" /\ lastOp.result = "written" /\ lastOp.assigned
    /\ rsStatus.lastSyncedCommit = "c2"
    /\ rsStatus.rendering.commit = "c1"

(***************************************************************************)
(* PART 2.  reconciler-manager: RepoSyncReconciler.                        *)
(* One RepoSync key is followed per behaviour; sibling RepoSyncs of its    *)
(* namespace appear through the subject they keep in the shared            *)
(* RoleBinding.                                                            *)
(***************************************************************************)

\* Largest metadata.generation a RepoSync reaches.
MaxGen == 2

ControllerNamespace == "config-management-system"

\* The keys a behaviour may follow; dns tells whether the reconciler name built
\* from the key is a DNS-1123 subdomain.
RepoSyncRefs ==
    {[namespace |-> "bookstore", name |-> "repo-sync", dns |-> TRUE],
     [namespace |-> "bookstore", name |-> "Repo_Sync", dns |-> FALSE],
     [namespace |-> ControllerNamespace, name |-> "repo-sync", dns |-> TRUE]}

ManagedKinds == {"Secret", "ServiceAccount", "Deployment", "Notification"}

NoRSStatus == [stalled |-> "", reconciling |-> FALSE, observedGeneration |-> 0, reconciler |-> <<>>]

NewRepoSync(valid) ==
    [exists |-> TRUE, deleting |-> FALSE, valid |-> valid, generation |-> 1, status |-> NoRSStatus,
     finalizer |-> FALSE]

\* core.NsReconcilerName, kept symbolic.
NsReconcilerName(key) == <<"ns-reconciler", key.namespace, key.name>>

\* r.serviceAccountSubject(reconcilerRef)
serviceAccountSubject(key) == NsReconcilerName(key)

\* The subject a sibling RepoSync of the same namespace keeps in the RoleBinding.
SiblingSubject(key) == <<"ns-reconciler", key.namespace, "sibling">>

IsDNS1123Subdomain(key) == key.dns

validateNamespaceName(namespaceName) == namespaceName # ControllerNamespace

\* validateSpec: source-type checks and the presence of the referenced Secrets.
validateSpec(rs) == rs.valid

addSubject(subjects, subject) ==
    IF \E i \in 1..Len(subjects) : subjects[i] = subject THEN subjects
    ELSE Append(subjects, subject)

removeSubject(subjects, subject) == SelectSeq(subjects, LAMBDA x : x # subject)

isLastReconciled(w, key) == key \in w.lastReconciled
setLastReconciled(w, key) == [w EXCEPT !.lastReconciled = @ \cup {key}]
clearLastReconciled(w, key) == [w EXCEPT !.lastReconciled = @ \ {key}]

\* The world one Reconcile call reads and writes.
World ==
    [objs |-> repoSyncObjs, managed |-> managed, deploy |-> deployment,
     deployOp |-> "none", roleBinding |-> roleBinding,
     repoSyncs |-> repoSyncs, lastReconciled |-> lastReconciled]

Rec(w, err, outcome) == [w |-> w, err |-> err, outcome |-> outcome]

SetStalled(st, reason) == [st EXCEPT !.stalled = reason]

\* updateStatus with rs.Status.ObservedGeneration left as it was read.
updateStatusKeepObserved(w, key, newStatus, fail) ==
    IF newStatus = w.objs[key].status THEN [w |-> w, updated |-> FALSE, err |-> FALSE]
    ELSE IF fail = "status" THEN [w |-> w, updated |-> FALSE, err |-> TRUE]
    ELSE [w |-> setLastReconciled([w EXCEPT !.objs[key].status = newStatus], key),
          updated |-> TRUE, err |-> FALSE]

\* updateStatus: returns the world, whether an update was sent, and its error.
updateStatus(w, key, newStatus, fail) ==
    LET st == [newStatus EXCEPT !.observedGeneration = w.objs[key].generation]
    IN IF st = w.objs[key].status THEN [w |-> w, updated |-> FALSE, err |-> FALSE]
       ELSE IF fail = "status" THEN [w |-> w, updated |-> FALSE, err |-> TRUE]
       ELSE [w |-> setLastReconciled([w EXCEPT !.objs[key].status = st], key),
             updated |-> TRUE, err |-> FALSE]

\* stalledReturn with an error returned whatever the status update did.
stalledReturnRetry(w, key, reason, fail, upsertErr) ==
    LET u == updateStatus(w, key, SetStalled(w.objs[key].status, reason), fail)
    IN Rec(u.w, TRUE, "stalled")

\* stalledReturn with the error of the status update alone returned.
stalledReturnStatusError(w, key, reason, fail, upsertErr) ==
    LET u == updateStatus(w, key, SetStalled(w.objs[key].status, reason), fail)
    IN Rec(u.w, u.err, "stalled")

\* SetStalled, updateStatus, return: with upsertErr the upsert error is returned
\* whatever the status update did, otherwise the status update's error.
stalledReturn(w, key, reason, fail, upsertErr) ==
    LET u == updateStatus(w, key, SetStalled(w.objs[key].status, reason), fail)
    IN Rec(u.w, upsertErr \/ u.err, "stalled")

upsertManaged(w, key, kind) == [w EXCEPT !.managed[key] = @ \cup {kind}]
deleteManaged(w, key, kind) == [w EXCEPT !.managed[key] = @ \ {kind}]

\* No reconciler Deployment.  owned: the fields the manager declares (the
\* RepoSync generation they were derived from, whether the notification
\* container is there, and whether someone changed one of them by hand);
\* unowned: whether someone set a field the manager does not declare.
NoDeployment ==
    [owned |-> [spec |-> 0, notify |-> FALSE, manual |-> FALSE], unowned |-> FALSE]

\* mutationsFor applied to the Deployment template: the declared fields.
mutationsFor(rs, notificationEnabled) ==
    [spec |-> rs.generation, notify |-> notificationEnabled, manual |-> FALSE]

deploymentKept(w, key, notify) == w

\* upsertDeployment with the Deployment updated whether or not it differs.
upsertDeploymentAlways(w, key, notify) ==
    LET want == mutationsFor(w.objs[key], notify)
        w1 == upsertManaged(w, key, "Deployment")
    IN IF "Deployment" \notin w.managed[key]
       THEN [w1 EXCEPT !.deploy[key] = [owned |-> want, unowned |-> FALSE], !.deployOp = "created"]
       ELSE [w1 EXCEPT !.deploy[key].owned = want, !.deployOp = "updated"]

\* upsertDeployment with the whole Deployment replaced by the template.
upsertDeploymentReplace(w, key, notify) ==
    LET want == mutationsFor(w.objs[key], notify)
        w1 == upsertManaged(w, key, "Deployment")
    IN IF "Deployment" \notin w.managed[key]
       THEN [w1 EXCEPT !.deploy[key] = [owned |-> want, unowned |-> FALSE], !.deployOp = "created"]
       ELSE IF w.deploy[key].owned = want /\ ~w.deploy[key].unowned
            THEN [w1 EXCEPT !.deployOp = "unchanged"]
       ELSE [w1 EXCEPT !.deploy[key] = [owned |-> want, unowned |-> FALSE], !.deployOp = "updated"]

\* upsertDeployment: create the Deployment from the mutated template, or
\* set the declared fields where they differ, leaving the other fields.
upsertDeployment(w, key, notify) ==
    LET want == mutationsFor(w.objs[key], notify)
        w1 == upsertManaged(w, key, "Deployment")
    IN IF "Deployment" \notin w.managed[key]
       THEN [w1 EXCEPT !.deploy[key] = [owned |-> want, unowned |-> FALSE], !.deployOp = "created"]
       ELSE IF w.deploy[key].owned = want
            THEN [w1 EXCEPT !.deployOp = "unchanged"]
       ELSE [w1 EXCEPT !.deploy[key].owned = want, !.deployOp = "updated"]

\* deleteDeployment
deleteDeployment(w, key) ==
    [deleteManaged(w, key, "Deployment") EXCEPT !.deploy[key] = NoDeployment]

upsertRoleBinding(w, key, subject) ==
    LET ns == key.namespace
    IN [w EXCEPT !.roleBinding[ns] = Binding(addSubject(@.subjects, subject))]

\* deleteRoleBinding: [w, err]
deleteRoleBinding(w, key, subject, fail) ==
    LET ns == key.namespace IN
    IF fail = "RoleBinding" \/ ~w.roleBinding[ns].exists THEN [w |-> w, err |-> TRUE]
    ELSE LET subjects == removeSubject(w.roleBinding[ns].subjects, subject)
         IN [w |-> [w EXCEPT !.roleBinding[ns] =
                        IF Len(subjects) = 0 THEN NoBinding ELSE Binding(subjects)],
             err |-> FALSE]

cleanupNSControllerResources(w, key, fail) ==
    IF fail = "list" THEN Rec(w, TRUE, "cleanupError")
    ELSE IF fail = "Deployment" THEN Rec(w, TRUE, "cleanupError")
    ELSE LET w1 == deleteDeployment(w, key) IN
    IF fail = "ConfigMap" THEN Rec(w1, TRUE, "cleanupError")
    ELSE IF fail = "ServiceAccount" THEN Rec(w1, TRUE, "cleanupError")
    ELSE LET w2 == deleteManaged(w1, key, "ServiceAccount")
             rb == deleteRoleBinding(w2, key, serviceAccountSubject(key), fail) IN
    IF rb.err THEN Rec(w2, TRUE, "cleanupError")
    ELSE IF fail = "Secret" THEN Rec(rb.w, TRUE, "cleanupError")
    ELSE LET w3 == deleteManaged(rb.w, key, "Secret") IN
    IF fail = "Notification" THEN Rec(w3, TRUE, "cleanupError")
    ELSE LET w4 == deleteManaged(w3, key, "Notification")
         IN Rec([w4 EXCEPT !.repoSyncs = @ \ {key}], FALSE, "cleaned")

\* Reconcile with the RepoSync never entered in r.repoSyncs.
registerNothing(w, key) == w

\* r.repoSyncs[rsRef] = struct{}{}: the RepoSync is one the manager cleans up
\* after.
registerRepoSync(w, key) == [w EXCEPT !.repoSyncs = @ \cup {key}]

\* RepoSyncReconciler.Reconcile for key.  in: stale (the cache returns the
\* version whose status update was recorded), fail (the API call that fails, or
\* "none"), notify (util.NotificationEnabled), kstatus (kstatus.Compute of the
\* Deployment), statusFail ("status" when the status update after a failed
\* upsert fails too, or "none").
reconcileRepoSync(w, key, in) ==
    IF in.fail = "get" THEN Rec(w, TRUE, "getError")
    ELSE IF ~w.objs[key].exists THEN
        LET c == clearLastReconciled(w, key) IN
        IF key \notin c.repoSyncs THEN Rec(c, FALSE, "unmanaged")
        ELSE cleanupNSControllerResources(c, key, in.fail)
    ELSE IF in.stale /\ isLastReconciled(w, key) THEN Rec(w, TRUE, "stale")
    ELSE IF ~validateNamespaceName(key.namespace)
         THEN stalledReturn(w, key, "Validation", in.fail, FALSE)
    ELSE LET w0 == registerRepoSync(w, key) IN
    IF ~IsDNS1123Subdomain(key) THEN stalledReturn(w0, key, "Validation", in.fail, FALSE)
    ELSE IF ~validateSpec(w0.objs[key]) THEN stalledReturn(w0, key, "Validation", in.fail, FALSE)
    ELSE IF in.fail \in {"Secret", "caCert"} THEN stalledReturn(w0, key, "Secret", in.statusFail, TRUE)
    ELSE LET w1 == upsertManaged(w0, key, "Secret") IN
    IF in.fail = "ServiceAccount" THEN stalledReturn(w1, key, "ServiceAccount", in.statusFail, TRUE)
    ELSE LET w2 == upsertManaged(w1, key, "ServiceAccount") IN
    IF in.fail = "RoleBinding" THEN stalledReturn(w2, key, "RoleBinding", in.statusFail, TRUE)
    ELSE LET w3 == upsertRoleBinding(w2, key, serviceAccountSubject(key)) IN
    IF in.fail = "Notification" THEN stalledReturn(w3, key, "Notification", in.statusFail, TRUE)
    ELSE LET w4 == IF in.notify THEN upsertManaged(w3, key, "Notification")
                   ELSE deleteManaged(w3, key, "Notification") IN
    IF in.fail = "Deployment" THEN stalledReturn(w4, key, "Deployment", in.statusFail, TRUE)
    ELSE LET w5 == upsertDeployment(w4, key, in.notify)
             st0 == [w5.objs[key].status EXCEPT !.reconciler = NsReconcilerName(key)]
             w6 == [w5 EXCEPT !.objs[key].status = st0] IN
    IF in.fail = "kstatus"
    THEN LET u == updateStatus([w5 EXCEPT !.objs[key].status = w.objs[key].status], key,
                               SetStalled(st0, "Deployment"), "none")
         IN Rec(u.w, TRUE, "stalled")
    ELSE LET st1 == CASE in.kstatus = "InProgress" ->
                            [st0 EXCEPT !.reconciling = TRUE, !.stalled = ""]
                      [] in.kstatus = "Failed" ->
                            [st0 EXCEPT !.reconciling = TRUE, !.stalled = "Deployment"]
                      [] OTHER -> [st0 EXCEPT !.reconciling = FALSE, !.stalled = ""]
             u == updateStatus(w5, key, st1, in.fail)
         IN Rec(u.w, u.err, "reconciled")

FailPoints ==
    {"get", "list", "status", "Secret", "caCert", "ServiceAccount", "RoleBinding",
     "ConfigMap", "Notification", "Deployment", "kstatus"}

\* The upserts of Reconcile and the Stalled reason of each.
UpsertFailPoints ==
    {"Secret", "caCert", "ServiceAccount", "RoleBinding", "Notification", "Deployment"}
stalledReason(fail) == IF fail = "caCert" THEN "Secret" ELSE fail

ReconcileInputs(key) ==
    [stale : {FALSE}, fail : {"none"}, notify : BOOLEAN,
     kstatus : {"InProgress", "Failed", "Current"}, statusFail : {"none"}]
    \cup [stale : {FALSE}, fail : FailPoints, notify : {FALSE}, kstatus : {"Current"},
          statusFail : {"none"}]
    \cup [stale : {FALSE}, fail : UpsertFailPoints, notify : {FALSE}, kstatus : {"Current"},
          statusFail : {"status"}]
    \cup (IF key \in lastReconciled
          THEN [stale : {TRUE}, fail : {"none"}, notify : {FALSE}, kstatus : {"Current"},
                statusFail : {"none"}]
          ELSE {})

NoRec == [op |-> "none", err |-> FALSE, outcome |-> "none", deployOp |-> "none"]

ManagerInit ==
    \E ref \in RepoSyncRefs :
        /\ repoSyncObjs = [k \in {ref} |-> Absent]
        /\ managed = [k \in {ref} |-> {}]
        /\ deployment = [k \in {ref} |-> NoDeployment]
        /\ roleBinding = [n \in {ref.namespace} |-> NoBinding]
        /\ repoSyncs = {}
        /\ lastReconciled = {}
        /\ lastRec = NoRec

\* RepoSyncReconciler.Reconcile, under r.lock.
ReconcileRepoSync ==
    \E key \in DOMAIN repoSyncObjs : \E in \in ReconcileInputs(key) :
        LET out == reconcileRepoSync(World, key, in)
        IN /\ repoSyncObjs' = out.w.objs
           /\ managed' = out.w.managed
           /\ deployment' = out.w.deploy
           /\ roleBinding' = out.w.roleBinding
           /\ repoSyncs' = out.w.repoSyncs
           /\ lastReconciled' = out.w.lastReconciled
           /\ lastRec' = [op |-> "Reconcile", err |-> out.err, outcome |-> out.outcome,
                           deployOp |-> out.w.deployOp]

\* A user creates the RepoSync.
CreateRepoSync ==
    \E key \in DOMAIN repoSyncObjs, valid \in BOOLEAN :
        /\ ~repoSyncObjs[key].exists
        /\ repoSyncObjs' = [repoSyncObjs EXCEPT ![key] = NewRepoSync(valid)]
        /\ lastRec' = NoRec
        /\ UNCHANGED <<managed, deployment, roleBinding, repoSyncs, lastReconciled>>

\* A user edits the spec (a new generation), or a referenced Secret appears or
\* disappears (same generation).
EditRepoSync ==
    \E key \in DOMAIN repoSyncObjs, valid \in BOOLEAN, bump \in BOOLEAN :
        /\ repoSyncObjs[key].exists
        /\ bump => repoSyncObjs[key].generation < MaxGen
        /\ ~bump => valid # repoSyncObjs[key].valid
        /\ repoSyncObjs' = [repoSyncObjs EXCEPT
               ![key].valid = valid,
               ![key].generation = IF bump THEN @ + 1 ELSE @]
        /\ lastRec' = NoRec
        /\ UNCHANGED <<managed, deployment, roleBinding, repoSyncs, lastReconciled>>

\* A RepoSync that was deleted: the API server no longer has it; valid keeps
\* what its spec was when it went.
Gone(obj) == [exists |-> FALSE, valid |-> obj.valid]

\* A user deletes the RepoSync: it goes at once, or keeps a deletion timestamp
\* while a finalizer of another party holds it.
DeleteRepoSync ==
    \E key \in DOMAIN repoSyncObjs, held \in BOOLEAN :
        /\ repoSyncObjs[key].exists
        /\ held => ~repoSyncObjs[key].deleting
        /\ repoSyncObjs' = [repoSyncObjs EXCEPT
               ![key] = IF held THEN [@ EXCEPT !.deleting = TRUE] ELSE Gone(@)]
        /\ lastRec' = NoRec
        /\ UNCHANGED <<managed, deployment, roleBinding, repoSyncs, lastReconciled>>

\* The reconcile of a sibling RepoSync of the namespace, as far as the shared
\* RoleBinding goes: its upsertRoleBinding or its deleteRoleBinding.
SiblingRoleBinding ==
    \E key \in DOMAIN repoSyncObjs, add \in BOOLEAN :
        LET w == IF add THEN upsertRoleBinding(World, key, SiblingSubject(key))
                 ELSE deleteRoleBinding(World, key, SiblingSubject(key), "none").w
        IN /\ w.roleBinding # roleBinding
           /\ roleBinding' = w.roleBinding
           /\ lastRec' = NoRec
           /\ UNCHANGED <<repoSyncObjs, managed, deployment, repoSyncs, lastReconciled>>

\* Someone edits the reconciler Deployment by hand: a field the manager
\* declares (replicas, a container's imagePullPolicy), or one it does not
\* (tolerations, priorityClassName).
EditDeployment ==
    \E key \in DOMAIN repoSyncObjs, ownedField \in BOOLEAN :
        /\ "Deployment" \in managed[key]
        /\ deployment' = [deployment EXCEPT
               ![key].owned.manual = IF ownedField THEN TRUE ELSE @,
               ![key].unowned = IF ownedField THEN @ ELSE ~@]
        /\ deployment' # deployment
        /\ lastRec' = NoRec
        /\ UNCHANGED <<repoSyncObjs, managed, roleBinding, repoSyncs, lastReconciled>>

\* The reconciler-manager restarts: its in-memory maps start empty.
RestartManager ==
    /\ repoSyncs # {} \/ lastReconciled # {}
    /\ repoSyncs' = {}
    /\ lastReconciled' = {}
    /\ lastRec' = NoRec
    /\ UNCHANGED <<repoSyncObjs, managed, deployment, roleBinding>>

\* The three validations of Reconcile, on the RepoSync as it is now.
passesValidation(key) ==
    /\ validateNamespaceName(key.namespace)
    /\ IsDNS1123Subdomain(key)
    /\ validateSpec(repoSyncObjs[key])

hasDeployment(key) == "Deployment" \in managed[key]

MaxRootSyncs == 2

RootSyncNames == 1..MaxRootSyncs

RootManagedKinds == {"ServiceAccount", "Deployment"}

NewRootSync(valid) == [exists |-> TRUE, deleting |-> FALSE, valid |-> valid, finalizer |-> FALSE]

\* core.RootReconcilerName and the ServiceAccount subject built from it.
RootReconcilerName(name) == <<"root-reconciler", name>>

\* RootSyncReconciler.deleteClusterRoleBinding with the emptied binding updated
\* instead of deleted.
deleteClusterRoleBindingKeepEmpty(c, subject, fail) ==
    IF fail = "ClusterRoleBinding" \/ ~c.exists THEN [crb |-> c, err |-> TRUE]
    ELSE [crb |-> Binding(removeSubject(c.subjects, subject)), err |-> FALSE]

\* RootSyncReconciler.deleteClusterRoleBinding (with RootSyncReconciler.cleanup):
\* the binding after the call and whether the call returned an error.
deleteClusterRoleBinding(c, subject, fail) ==
    IF fail = "ClusterRoleBinding" \/ ~c.exists THEN [crb |-> c, err |-> TRUE]
    ELSE LET subjects == removeSubject(c.subjects, subject)
         IN [crb |-> IF Len(subjects) = 0 THEN NoBinding ELSE Binding(subjects),
             err |-> FALSE]

\* upsertClusterRoleBinding: CreateOrUpdate with addSubject.
upsertClusterRoleBinding(c, subject) == Binding(addSubject(c.subjects, subject))

RootWorld == [objs |-> rootSyncObjs, managed |-> rootManaged, crb |-> crb]

\* Teardown of a RootSync that carries a deletion timestamp and the finalizer:
\* Deployment, ServiceAccount, subject in the shared binding, then the finalizer,
\* whose removal lets the API server drop the object.
teardownRootSync(w, name, fail) ==
    IF fail = "Deployment" THEN Rec(w, TRUE, "teardown")
    ELSE LET w1 == [w EXCEPT !.managed[name] = @ \ {"Deployment"}] IN
    IF fail = "ServiceAccount" THEN Rec(w1, TRUE, "teardown")
    ELSE LET w2 == [w1 EXCEPT !.managed[name] = @ \ {"ServiceAccount"}]
             d == deleteClusterRoleBinding(w2.crb, RootReconcilerName(name), fail) IN
    IF d.err THEN Rec(w2, TRUE, "teardown")
    ELSE LET w3 == [w2 EXCEPT !.crb = d.crb] IN
    IF fail = "finalizer" THEN Rec(w3, TRUE, "teardown")
    ELSE Rec([w3 EXCEPT !.objs[name] = Absent], FALSE, "teardown")

\* RootSyncReconciler.Reconcile for name; fail is the API call that fails.
reconcileRootSync(w, name, fail) ==
    IF fail = "get" THEN Rec(w, TRUE, "getError")
    ELSE IF ~w.objs[name].exists THEN Rec(w, FALSE, "notFound")
    ELSE IF w.objs[name].deleting THEN
        IF w.objs[name].finalizer THEN teardownRootSync(w, name, fail)
        ELSE Rec(w, FALSE, "deleting")
    ELSE IF ~w.objs[name].valid THEN Rec(w, FALSE, "stalled")
    ELSE IF fail = "finalizer" THEN Rec(w, TRUE, "error")
    ELSE LET w1 == [w EXCEPT !.objs[name].finalizer = TRUE] IN
    IF fail = "ServiceAccount" THEN Rec(w1, TRUE, "error")
    ELSE LET w2 == [w1 EXCEPT !.managed[name] = @ \cup {"ServiceAccount"}] IN
    IF fail = "ClusterRoleBinding" THEN Rec(w2, TRUE, "error")
    ELSE LET w3 == [w2 EXCEPT !.crb = upsertClusterRoleBinding(@, RootReconcilerName(name))] IN
    IF fail = "Deployment" THEN Rec(w3, TRUE, "error")
    ELSE Rec([w3 EXCEPT !.managed[name] = @ \cup {"Deployment"}], FALSE, "reconciled")

RootFailPoints == {"none", "get", "finalizer", "ServiceAccount", "ClusterRoleBinding", "Deployment"}

NoRootRec == [op |-> "none", err |-> FALSE, outcome |-> "none", name |-> 0]

RootInit ==
    /\ rootSyncObjs = [n \in RootSyncNames |-> Absent]
    /\ rootManaged = [n \in RootSyncNames |-> {}]
    /\ crb = NoBinding
    /\ lastRoot = NoRootRec

\* RootSyncReconciler.Reconcile, under the controller's lock.
ReconcileRootSync ==
    \E name \in RootSyncNames, fail \in RootFailPoints :
        LET out == reconcileRootSync(RootWorld, name, fail)
        IN /\ rootSyncObjs' = out.w.objs
           /\ rootManaged' = out.w.managed
           /\ crb' = out.w.crb
           /\ lastRoot' = [op |-> "Reconcile", err |-> out.err, outcome |-> out.outcome,
                           name |-> name]

\* A user creates a RootSync.
CreateRootSync ==
    \E name \in RootSyncNames, valid \in BOOLEAN :
        /\ ~rootSyncObjs[name].exists
        /\ rootSyncObjs' = [rootSyncObjs EXCEPT ![name] = NewRootSync(valid)]
        /\ lastRoot' = NoRootRec
        /\ UNCHANGED <<rootManaged, crb>>

\* A user edits a RootSync so that it starts or stops passing validation.
EditRootSync ==
    \E name \in RootSyncNames :
        /\ rootSyncObjs[name].exists
        /\ rootSyncObjs' = [rootSyncObjs EXCEPT ![name].valid = ~@]
        /\ lastRoot' = NoRootRec
        /\ UNCHANGED <<rootManaged, crb>>

\* A user deletes a RootSync: with the finalizer on it the object stays, with a
\* deletion timestamp; without, it goes at once.
DeleteRootSync ==
    \E name \in RootSyncNames :
        /\ rootSyncObjs[name].exists /\ ~rootSyncObjs[name].deleting
        /\ rootSyncObjs' = [rootSyncObjs EXCEPT
               ![name] = IF @.finalizer THEN [@ EXCEPT !.deleting = TRUE] ELSE Absent]
        /\ lastRoot' = NoRootRec
        /\ UNCHANGED <<rootManaged, crb>>

subjectSet == {crb.subjects[i] : i \in 1..Len(crb.subjects)}

noDuplicates(q) == \A i, j \in 1..Len(q) : i # j => q[i] # q[j]

MaxChanges == 2

Nil == [nil |-> TRUE]

WebhookKinds == {"RootSync", "RepoSync", "Role", "ResourceGroup"}
WebhookRootSync == 1
WebhookRepoSync == [namespace |-> "bookstore", name |-> "repo-sync"]

\* Values of the manager annotation: none, the RootSync, the RepoSync.
NoManager == <<>>
Managers == {NoManager, <<":root", WebhookRootSync>>, <<"bookstore", "repo-sync">>}

Users == {<<"alice">>, RootReconcilerName(WebhookRootSync), NsReconcilerName(WebhookRepoSync)}

DiffFields == {"managed", "manager", "managedBy", "notified", "spec"}

\* The declared-fields annotation: missing, or the set it encodes.
DeclaredOptions == {[present |-> FALSE, set |-> {}], [present |-> TRUE, set |-> {}],
                    [present |-> TRUE, set |-> {"spec"}]}

IgnoreMutation == "ignore"

\* The value of a field on an object; a nil object has no field set.
FieldValue(obj, f) ==
    IF ~obj.nil THEN obj[f]
    ELSE CASE f = "manager" -> NoManager
           [] f = "spec" -> 0
           [] OTHER -> ""

\* differ.ManagedByConfigSync
ManagedByConfigSync(obj) == ~obj.nil /\ obj.managed = "enabled"

\* isConfigSyncSA: the user is a reconciler service account.
isConfigSyncSA(user) == user[1] \in {"ns-reconciler", "root-reconciler"}

\* The reconciler that applies on behalf of a manager.
reconcilerOfManager(manager) ==
    IF manager[1] = ":root" THEN RootReconcilerName(manager[2])
    ELSE NsReconcilerName([namespace |-> manager[1], name |-> manager[2]])

\* diff.ValidateManager: TRUE when it returns an error.
ValidateManager(username, manager) ==
    manager # NoManager /\ reconcilerOfManager(manager) # username

\* convertObjects: err, or the two objects; a raw object becomes unstructured.
convertObjects(r) ==
    [err |-> r.mode = "convertError",
     oldObj |-> IF r.oldObj.nil THEN Nil ELSE [r.oldObj EXCEPT !.unstructured = r.mode # "parsed"],
     newObj |-> IF r.newObj.nil THEN Nil ELSE [r.newObj EXCEPT !.unstructured = r.mode # "parsed"]]

\* ObjectDiffer.FieldDiff: err, or the set of fields whose values differ.
FieldDiff(r, oldObj, newObj) ==
    [err |-> r.mode = "diffError",
     set |-> {f \in DiffFields : FieldValue(oldObj, f) # FieldValue(newObj, f)}]

\* ConfigSyncMetadata: the Config Sync labels and annotations of a field set.
ConfigSyncMetadata(set) == set \cap {"managed", "manager", "managedBy"}

\* DeclaredFields: err when the annotation is missing, else the set it encodes.
DeclaredFields(obj) == [err |-> ~obj.declared.present, set |-> obj.declared.set]

\* OnlyNotifiedAnnotation
OnlyNotifiedAnnotation(set) == set = {"notified"}

getManager(obj) == IF obj.nil THEN NoManager ELSE obj.manager

objectManager(oldObj, newObj) ==
    IF getManager(oldObj) = NoManager THEN getManager(newObj) ELSE getManager(oldObj)

\* A response; via names the return statement that produced it.
allow(via) == [set |-> TRUE, allowed |-> TRUE, reason |-> "", via |-> via]
deny(reason, via) == [set |-> TRUE, allowed |-> FALSE, reason |-> reason, via |-> via]
NoResp == [set |-> FALSE]

\* The reconciler of a RootSync or RepoSync object.
syncReconciler(obj) ==
    IF obj.kind = "RootSync" THEN RootReconcilerName(WebhookRootSync)
    ELSE NsReconcilerName(WebhookRepoSync)

\* allowNotificationAnnotation without the check of the diff.
allowOwnReconciler(r, oldObj, newObj, username) ==
    /\ ~newObj.nil /\ newObj.unstructured
    /\ newObj.kind \in {"RootSync", "RepoSync"}
    /\ newObj.notificationEnabled
    /\ syncReconciler(newObj) = username

allowNotificationAnnotation(r, oldObj, newObj, username) ==
    IF newObj.nil \/ ~newObj.unstructured THEN FALSE
    ELSE IF newObj.kind \notin {"RootSync", "RepoSync"} THEN FALSE
    ELSE IF ~newObj.notificationEnabled THEN FALSE
    ELSE IF syncReconciler(newObj) # username THEN FALSE
    ELSE LET d == FieldDiff(r, oldObj, newObj) IN
         IF d.err THEN FALSE ELSE OnlyNotifiedAnnotation(d.set)

handleCreate(newObj) ==
    IF ManagedByConfigSync(newObj) THEN deny("Unauthorized", "create") ELSE allow("create")

\* handleDelete admitting every request.
handleDeleteOpen(oldObj) == allow("delete")

handleDelete(oldObj) ==
    IF oldObj.deletionTimestamp THEN allow("deleting")
    ELSE IF ManagedByConfigSync(oldObj) THEN deny("Unauthorized", "delete")
    ELSE allow("delete")

\* handleUpdate denying what it cannot evaluate.
handleUpdateFailClosed(r, oldObj, newObj) ==
    IF ~ManagedByConfigSync(oldObj) /\ ~ManagedByConfigSync(newObj) THEN allow("unmanaged")
    ELSE LET d == FieldDiff(r, oldObj, newObj) IN
         IF d.err THEN deny("Forbidden", "diffError")
         ELSE IF ConfigSyncMetadata(d.set) # {} THEN deny("Forbidden", "metadata")
         ELSE IF oldObj.lifecycle = IgnoreMutation THEN allow("ignoreMutation")
         ELSE LET declaredSet == DeclaredFields(oldObj) IN
              IF declaredSet.err THEN deny("Forbidden", "declaredError")
              ELSE IF d.set \cap declaredSet.set # {} THEN deny("Forbidden", "declared")
              ELSE allow("update")

\* handleUpdate without the check of the declared fields.
handleUpdateMetadataOnly(r, oldObj, newObj) ==
    IF ~ManagedByConfigSync(oldObj) /\ ~ManagedByConfigSync(newObj) THEN allow("unmanaged")
    ELSE LET d == FieldDiff(r, oldObj, newObj) IN
         IF d.err THEN allow("diffError")
         ELSE IF ConfigSyncMetadata(d.set) # {} THEN deny("Forbidden", "metadata")
         ELSE allow("update")

\* handleUpdate with the lifecycle annotation read before the metadata check.
handleUpdateIgnoreFirst(r, oldObj, newObj) ==
    IF ~ManagedByConfigSync(oldObj) /\ ~ManagedByConfigSync(newObj) THEN allow("unmanaged")
    ELSE IF oldObj.lifecycle = IgnoreMutation THEN allow("ignoreMutation")
    ELSE handleUpdateMetadataOnly(r, oldObj, newObj)

handleUpdate(r, oldObj, newObj) ==
    IF ~ManagedByConfigSync(oldObj) /\ ~ManagedByConfigSync(newObj) THEN allow("unmanaged")
    ELSE LET d == FieldDiff(r, oldObj, newObj) IN
         IF d.err THEN allow("diffError")
         ELSE IF ConfigSyncMetadata(d.set) # {} THEN deny("Forbidden", "metadata")
         ELSE IF oldObj.lifecycle = IgnoreMutation THEN allow("ignoreMutation")
         ELSE LET declaredSet == DeclaredFields(oldObj) IN
              IF declaredSet.err THEN allow("declaredError")
              ELSE IF d.set \cap declaredSet.set # {} THEN deny("Forbidden", "declared")
              ELSE allow("update")

\* The service-account branch of Handle without the manager check.
handleConfigSyncSAUnchecked(r, oldObj, newObj) ==
    IF allowNotificationAnnotation(r, oldObj, newObj, r.user) THEN allow("notification")
    ELSE allow("manager")

\* The service-account branch of Handle.
handleConfigSyncSA(r, oldObj, newObj) ==
    LET username == r.user
        manager == objectManager(oldObj, newObj)
    IN  IF allowNotificationAnnotation(r, oldObj, newObj, username) THEN allow("notification")
        ELSE IF ValidateManager(username, manager) THEN deny("Unauthorized", "manager")
        ELSE allow("manager")

\* isResourceGroupRequest: the request is for a ResourceGroup.
isResourceGroupRequest(r) ==
    (IF r.newObj.nil THEN r.oldObj.kind ELSE r.newObj.kind) = "ResourceGroup"

\* handleResourceGroupRequest: its answer is an input.
handleResourceGroupRequest(rgAllowed) ==
    IF rgAllowed THEN allow("resourceGroup") ELSE deny("Forbidden", "resourceGroup")

\* Validator.Handle
Handle(r, rgAllowed) ==
    IF r.mode = "subResource" THEN allow("subResource")
    ELSE LET c == convertObjects(r) IN
         IF c.err THEN allow("convertError")
         ELSE IF isConfigSyncSA(r.user) THEN handleConfigSyncSA(r, c.oldObj, c.newObj)
         ELSE IF isResourceGroupRequest(r) THEN handleResourceGroupRequest(rgAllowed)
         ELSE CASE r.op = "CREATE" -> handleCreate(c.newObj)
                [] r.op = "DELETE" -> handleDelete(c.oldObj)
                [] r.op = "UPDATE" -> handleUpdate(r, c.oldObj, c.newObj)
                [] OTHER -> allow("unsupported")

\* ---- requests ----
\* normal: raw objects; parsed: already-parsed typed objects; the other modes
\* are a sub-resource request, an object that does not convert and a diff
\* that cannot be computed.
Modes == {"normal", "parsed", "subResource", "convertError", "diffError"}

StoredObjects ==
    [nil : {FALSE}, unstructured : {FALSE}, kind : WebhookKinds,
     deletionTimestamp : BOOLEAN, notificationEnabled : BOOLEAN,
     lifecycle : {"", IgnoreMutation}, declared : DeclaredOptions,
     managed : {"", "enabled"}, manager : Managers,
     managedBy : {"config-sync"}, notified : {""}, spec : {1}]

\* The objects an Update may carry for a stored object.
UpdatedObjects(old) ==
    {new \in [nil : {FALSE}, unstructured : {FALSE}, kind : {old.kind},
              deletionTimestamp : {old.deletionTimestamp},
              notificationEnabled : {old.notificationEnabled},
              lifecycle : {old.lifecycle}, declared : {old.declared},
              managed : {"", "enabled"}, manager : Managers,
              managedBy : {"", "config-sync"}, notified : {"", "n1"}, spec : {1, 2}] :
        Cardinality({f \in DiffFields : old[f] # new[f]}) <= MaxChanges}

Request(op, user, mode, oldObj, newObj) ==
    [op |-> op, user |-> user, mode |-> mode, oldObj |-> oldObj, newObj |-> newObj]

\* The irregular modes are drawn for objects with a readable declared-fields
\* annotation and no deletion timestamp.
ModesOf(obj) ==
    IF obj.declared.present /\ obj.declared.set # {} /\ ~obj.deletionTimestamp
    THEN Modes ELSE {"normal"}

\* The requests: an Update of a stored object, its Delete, and the Create or
\* Connect of an object not yet deleted.
WebhookInit ==
    /\ resp = NoResp
    /\ \E old \in StoredObjects, u \in Users : \E m \in ModesOf(old) :
          \/ \E new \in UpdatedObjects(old) : req = Request("UPDATE", u, m, old, new)
          \/ req = Request("DELETE", u, m, old, Nil)
          \/ ~old.deletionTimestamp /\ req = Request("CREATE", u, m, Nil, old)
          \/ ~old.deletionTimestamp /\ req = Request("CONNECT", u, m, Nil, old)

\* The webhook answers the request.
HandleRequest ==
    /\ ~resp.set
    /\ \E rgAllowed \in BOOLEAN : resp' = Handle(req, rgAllowed)
    /\ UNCHANGED req

\* ---- what a state shows of its request ----
\* The request came from a principal that is no Config Sync service account,
\* is for no ResourceGroup, and the webhook could read its objects and compute
\* their diff.
externalReviewed ==
    /\ resp.set /\ ~isConfigSyncSA(req.user) /\ ~isResourceGroupRequest(req)
    /\ req.mode \in {"normal", "parsed"}

\* The fields that differ between the old and the new object of the request.
differing == {f \in DiffFields : FieldValue(req.oldObj, f) # FieldValue(req.newObj, f)}

\* An Update of a managed object whose diff meets the declared fields.
declaredFieldUpdate ==
    /\ req.op = "UPDATE" /\ ManagedByConfigSync(req.oldObj)
    /\ req.oldObj.declared.present
    /\ differing \cap req.oldObj.declared.set # {}

\* C4 (as stated): for every managed object, an Update from a principal that
\* is no Config Sync service account is denied whenever the fields that
\* differ meet the declared-fields snapshot of the object.
C4_DeclaredFieldUpdateDenied ==
    (externalReviewed /\ declaredFieldUpdate) => ~resp.allowed

\* C4 (amended): such an Update is denied as Forbidden unless the stored
\* object is annotated lifecycle-mutation = ignore; with that annotation it is
\* admitted exactly when no Config Sync metadata differs; and it is admitted
\* when the request is for a sub-resource or its objects or diff are unreadable.
C4_DeclaredFieldUpdateDeniedUnlessIgnored ==
    (resp.set /\ ~isConfigSyncSA(req.user) /\ ~isResourceGroupRequest(req)
       /\ declaredFieldUpdate) =>
        /\ (req.mode \in {"normal", "parsed"} /\ req.oldObj.lifecycle # IgnoreMutation)
              => (~resp.allowed /\ resp.reason = "Forbidden")
        /\ (req.mode \in {"normal", "parsed"} /\ req.oldObj.lifecycle = IgnoreMutation)
              => (resp.allowed <=> differing \cap {"managed", "manager", "managedBy"} = {})
        /\ req.mode \in {"subResource", "convertError", "diffError"} => resp.allowed

C4_Witness ==
    /\ externalReviewed /\ declaredFieldUpdate
    /\ req.oldObj.lifecycle # IgnoreMutation
    /\ differing = {"spec"}
    /\ ~resp.allowed /\ resp.reason = "Forbidden" /\ resp.via = "declared"

\* C5 (as stated): a Create or Delete from a principal that is no Config Sync
\* service account on an object bearing the management-enabled metadata is
\* denied.
C5_CreateDeleteDenied ==
    /\ (externalReviewed /\ req.op = "CREATE" /\ ManagedByConfigSync(req.newObj))
          => ~resp.allowed
    /\ (externalReviewed /\ req.op = "DELETE" /\ ManagedByConfigSync(req.oldObj))
          => ~resp.allowed

\* C5 (amended): such a Create is denied as Unauthorized; such a Delete is
\* denied as Unauthorized unless the object already carries a deletion
\* timestamp, and then it is admitted.
C5_CreateDeleteDeniedUnlessDeleting ==
    /\ (externalReviewed /\ req.op = "CREATE" /\ ManagedByConfigSync(req.newObj))
          => (~resp.allowed /\ resp.reason = "Unauthorized")
    /\ (externalReviewed /\ req.op = "DELETE" /\ ManagedByConfigSync(req.oldObj))
          => IF req.oldObj.deletionTimestamp THEN resp.allowed
             ELSE ~resp.allowed /\ resp.reason = "Unauthorized"

C5_Witness ==
    /\ externalReviewed /\ req.op = "DELETE" /\ ManagedByConfigSync(req.oldObj)
    /\ ~req.oldObj.deletionTimestamp
    /\ ~resp.allowed /\ resp.reason = "Unauthorized"

\* C6: an Update by a principal that is no Config Sync service account that
\* changes Config Sync metadata of a managed object is denied as Forbidden,
\* also when the object is annotated lifecycle-mutation = ignore; on an
\* annotated object an Update that changes no such metadata is admitted, its
\* declared fields included.
C6_MetadataUpdateDenied ==
    (externalReviewed /\ req.op = "UPDATE"
       /\ (ManagedByConfigSync(req.oldObj) \/ ManagedByConfigSync(req.newObj))) =>
        /\ differing \cap {"managed", "manager", "managedBy"} # {}
              => (~resp.allowed /\ resp.reason = "Forbidden")
        /\ (req.oldObj.lifecycle = IgnoreMutation
               /\ differing \cap {"managed", "manager", "managedBy"} = {})
              => resp.allowed

C6_Witness ==
    /\ externalReviewed /\ req.op = "UPDATE" /\ ManagedByConfigSync(req.oldObj)
    /\ req.oldObj.lifecycle = IgnoreMutation
    /\ differing = {"managedBy"}
    /\ ~resp.allowed /\ resp.reason = "Forbidden" /\ resp.via = "metadata"

\* The request came from a reconciler service account, on an object whose
\* manager annotation names another manager, and the webhook could read it.
foreignManagerRequest ==
    /\ resp.set /\ isConfigSyncSA(req.user)
    /\ req.mode \notin {"subResource", "convertError"}
    /\ objectManager(req.oldObj, req.newObj) # NoManager
    /\ reconcilerOfManager(objectManager(req.oldObj, req.newObj)) # req.user

\* The request is a reconciler's update of its own RootSync or RepoSync, with
\* notifications enabled, received as raw objects.
ownSyncUpdate ==
    /\ resp.set /\ isConfigSyncSA(req.user)
    /\ req.mode = "normal" /\ req.op = "UPDATE"
    /\ req.newObj.kind \in {"RootSync", "RepoSync"}
    /\ req.newObj.notificationEnabled
    /\ req.user = syncReconciler(req.newObj)

\* C7 (as stated): a request by a reconciler service account on an object
\* whose manager annotation names a different manager is denied with reason
\* Unauthorized.
C7_ForeignManagerDenied ==
    foreignManagerRequest => (~resp.allowed /\ resp.reason = "Unauthorized")

\* C7 (amended): such a request is denied with reason Unauthorized unless it
\* is the reconciler's update of its own RootSync or RepoSync, notifications
\* enabled, that changes the notification annotation only; that update is
\* admitted.
C7_ForeignManagerDeniedUnlessNotification ==
    foreignManagerRequest =>
        IF ownSyncUpdate /\ differing = {"notified"} THEN resp.allowed
        ELSE ~resp.allowed /\ resp.reason = "Unauthorized"

C7_Witness ==
    /\ foreignManagerRequest
    /\ req.user = RootReconcilerName(WebhookRootSync)
    /\ req.op = "UPDATE" /\ req.newObj.kind = "Role"
    /\ req.oldObj.manager = <<"bookstore", "repo-sync">>
    /\ ~resp.allowed /\ resp.reason = "Unauthorized"

MaxAttempts == 2

\* What the sync directory of a commit holds: no Kustomization at all, one in
\* a sub-directory only, or one in the sync directory.
TreeKinds == {"plain", "subdir", "kustomize"}

\* SourceCommitAndDir
SourceCommitAndDir(f) == [err |-> f.sourceErr, commit |-> f.source]

\* DoneCommit with the done file never readable.
doneCommitUnread(f) == NoCommit

\* DoneCommit: the commit the done file holds, empty when there is none.
DoneCommit(f) == f.done

\* The rendered directory <hydrated root>/<commit> of a commit is "absent",
\* "partial" (part of the output) or "complete"; at first there is none.
NoDirs == [c \in Commits |-> "absent"]

\* complete with the done file written after a successful attempt only.
completeOnSuccess(f, commit, hydrationErr, fail) ==
    IF fail = "errorFile" THEN f
    ELSE LET f1 == [f EXCEPT !.errorFile = hydrationErr] IN
         IF fail = "done" \/ hydrationErr THEN f1 ELSE [f1 EXCEPT !.done = commit]

\* complete: reset the error file, then write the done file; fail names the
\* file operation that fails, if any.
complete(f, commit, hydrationErr, fail) ==
    IF fail = "errorFile" THEN f
    ELSE LET f1 == [f EXCEPT !.errorFile = hydrationErr] IN
         IF fail = "done" THEN f1 ELSE [f1 EXCEPT !.done = commit]

\* kustomizeBuild begins to write its output under <hydrated root>/<commit>.
kustomizeBuildStart(f, commit) == [f EXCEPT !.dirs[commit] = "partial"]

\* kustomizeBuild returns: the output is whole when the build succeeded.
kustomizeBuildEnd(f, commit, buildOK) ==
    IF buildOK THEN [f EXCEPT !.dirs[commit] = "complete"] ELSE f

\* updateSymlink with the previous directory removed before the rename.
updateSymlinkRemoveFirst(f, commit) ==
    IF f.link = commit THEN [fs |-> f, oldDir |-> NoCommit]
    ELSE IF f.link = NoCommit THEN [fs |-> [f EXCEPT !.link = commit], oldDir |-> NoCommit]
    ELSE [fs |-> [f EXCEPT !.link = commit, !.dirs[f.link] = "absent"], oldDir |-> f.link]

\* updateSymlink up to the rename of the temporary link onto the hydrated
\* link; oldDir is the directory RemoveAll is called on afterwards, if any.
updateSymlink(f, commit) ==
    IF f.link = commit THEN [fs |-> f, oldDir |-> NoCommit]
    ELSE [fs |-> [f EXCEPT !.link = commit], oldDir |-> f.link]

\* os.RemoveAll(oldDir) at the end of updateSymlink; a failure is only logged.
removeOldDir(f, oldDir, removed) ==
    IF removed THEN [f EXCEPT !.dirs[oldDir] = "absent"] ELSE f

\* runHydrate with the source commit not computed again after the build.
runHydrateUnchecked(f, sourceCommit, buildOK) ==
    LET f1 == kustomizeBuildEnd(f, sourceCommit, buildOK) IN
    IF ~buildOK THEN [fs |-> f1, err |-> "build", oldDir |-> NoCommit]
    ELSE LET u == updateSymlink(f1, sourceCommit) IN
         [fs |-> u.fs, err |-> "none", oldDir |-> u.oldDir]

\* runHydrate after kustomizeBuild returned, up to the rename in
\* updateSymlink: err is "build", "transient" (the source commit changed
\* during the build) or "none".
runHydrate(f, sourceCommit, buildOK) ==
    LET f1 == kustomizeBuildEnd(f, sourceCommit, buildOK) IN
    IF ~buildOK THEN [fs |-> f1, err |-> "build", oldDir |-> NoCommit]
    ELSE IF sourceCommit # f1.source THEN [fs |-> f1, err |-> "transient", oldDir |-> NoCommit]
    ELSE LET u == updateSymlink(f1, sourceCommit) IN
         [fs |-> u.fs, err |-> "none", oldDir |-> u.oldDir]

\* hydrate with the done file left in place before runHydrate.
hydrateKeepDone(f, sourceCommit) ==
    CASE f.tree[sourceCommit] = "subdir" -> [fs |-> f, err |-> TRUE, build |-> FALSE]
      [] f.tree[sourceCommit] = "plain" ->
            [fs |-> [f EXCEPT !.errorFile = FALSE, !.link = NoCommit, !.dirs = NoDirs],
             err |-> FALSE, build |-> FALSE]
      [] OTHER -> [fs |-> f, err |-> FALSE, build |-> TRUE]

\* hydrate up to its return or its call of runHydrate.
hydrate(f, sourceCommit) ==
    CASE f.tree[sourceCommit] = "subdir" -> [fs |-> f, err |-> TRUE, build |-> FALSE]
      [] f.tree[sourceCommit] = "plain" ->
            [fs |-> [f EXCEPT !.errorFile = FALSE, !.link = NoCommit, !.dirs = NoDirs],
             err |-> FALSE, build |-> FALSE]
      [] OTHER -> [fs |-> [f EXCEPT !.done = NoCommit], err |-> FALSE, build |-> TRUE]

\* The run timer's test with any done file taken for the commit's own.
needsRunWithoutDone(f, commit) == DoneCommit(f) = NoCommit

\* The run timer's test with every commit rendered.
alwaysRun(f, commit) == TRUE

\* The run timer's test: the commit has not been processed before.
needsRun(f, commit) == DoneCommit(f) # commit

\* rehydrateOnError's test with the error file never looked at.
rehydrateAlways(f) == TRUE

\* rehydrateOnError's test: os.Stat of the error file succeeds.
errorFilePresent(f) == f.errorFile

CompleteFailures == {"none", "errorFile", "done"}

NoTick ==
    [pc |-> "idle", tick |-> "none", seq |-> 0, commit |-> NoCommit, last |-> "none",
     oldDir |-> NoCommit]

\* The hydrator after a tick that ended; seq tells the ticks apart.
Ticked(h, tick, commit, last) ==
    [pc |-> "idle", tick |-> tick, seq |-> 1 - h.seq, commit |-> commit, last |-> last,
     oldDir |-> NoCommit]

\* The hydrator inside a tick whose kustomize build runs.
Building(h, tick, commit) ==
    [pc |-> "building", tick |-> tick, seq |-> 1 - h.seq, commit |-> commit,
     last |-> "building", oldDir |-> NoCommit]

\* How an attempt ended: complete returned an error ("incomplete"), or the
\* attempt's own result.
AttemptOutcome(result, fail) == IF fail # "none" THEN "incomplete" ELSE result

Attempted(commit) == [hist EXCEPT ![commit] = @ + 1]

HydratorInit ==
    /\ fs \in [source : Commits, sourceErr : {FALSE}, tree : [Commits -> TreeKinds],
               done : {NoCommit}, errorFile : {FALSE}, link : {NoCommit}, dirs : {NoDirs}]
    /\ hyd = NoTick
    /\ hist = [c \in Commits |-> 0]

\* case <-runTimer.C
RunTick ==
    /\ hyd.pc = "idle"
    /\ hist[fs.source] < MaxAttempts
    /\ LET s == SourceCommitAndDir(fs) IN
       IF s.err THEN hyd' = Ticked(hyd, "run", NoCommit, "sourceError") /\ UNCHANGED <<fs, hist>>
       ELSE IF ~needsRun(fs, s.commit)
       THEN hyd' = Ticked(hyd, "run", s.commit, "skipped") /\ UNCHANGED <<fs, hist>>
       ELSE LET h == hydrate(fs, s.commit) IN
            IF h.build
            THEN /\ fs' = kustomizeBuildStart(h.fs, s.commit)
                 /\ hyd' = Building(hyd, "run", s.commit)
                 /\ UNCHANGED hist
            ELSE \E fail \in CompleteFailures :
                    /\ fs' = complete(h.fs, s.commit, h.err, fail)
                    /\ hyd' = Ticked(hyd, "run", s.commit,
                                     AttemptOutcome(IF h.err THEN "failed" ELSE "noRender", fail))
                    /\ hist' = Attempted(s.commit)

\* case <-rehydrateTimer.C: rehydrateOnError up to the start of the build.
RehydrateTick ==
    /\ hyd.pc = "idle"
    /\ hist[fs.source] < MaxAttempts
    /\ UNCHANGED hist
    /\ LET s == SourceCommitAndDir(fs) IN
       IF s.err
       THEN hyd' = Ticked(hyd, "rehydrate", NoCommit, "sourceError") /\ UNCHANGED fs
       ELSE IF ~errorFilePresent(fs)
       THEN hyd' = Ticked(hyd, "rehydrate", s.commit, "noErrorFile") /\ UNCHANGED fs
       ELSE /\ fs' = kustomizeBuildStart(fs, s.commit)
            /\ hyd' = Building(hyd, "rehydrate", s.commit)

\* The rest of runHydrate: up to the rename of the hydrated link when a
\* previous directory is left to remove, otherwise to the end of complete.
FinishRender ==
    /\ hyd.pc = "building"
    /\ \E buildOK \in BOOLEAN, fail \in CompleteFailures :
          LET r == runHydrate(fs, hyd.commit, buildOK) IN
          IF r.oldDir # NoCommit
          THEN /\ fs' = r.fs
               /\ hyd' = [hyd EXCEPT !.pc = "swapped", !.oldDir = r.oldDir]
               /\ UNCHANGED hist
          ELSE /\ fs' = complete(r.fs, hyd.commit, r.err # "none", fail)
               /\ hyd' = [hyd EXCEPT !.pc = "idle",
                                     !.last = AttemptOutcome(CASE r.err = "build" -> "failed"
                                                        [] r.err = "transient" -> "transient"
                                                        [] OTHER -> "rendered", fail)]
               /\ hist' = Attempted(hyd.commit)

\* updateSymlink after the rename: the previous directory is removed; then
\* complete.
RemoveOldDir ==
    /\ hyd.pc = "swapped"
    /\ \E removed \in BOOLEAN, fail \in CompleteFailures :
          /\ fs' = complete(removeOldDir(fs, hyd.oldDir, removed), hyd.commit, FALSE, fail)
          /\ hyd' = [hyd EXCEPT !.pc = "idle", !.oldDir = NoCommit,
                                !.last = AttemptOutcome("rendered", fail)]
          /\ hist' = Attempted(hyd.commit)

\* git-sync points the source link at another commit.
NewCommit ==
    /\ \E c \in Commits \ {fs.source} : fs' = [fs EXCEPT !.source = c]
    /\ UNCHANGED <<hyd, hist>>

\* git-sync writes or removes its own error file, or the link breaks or heals.
SourceError ==
    /\ fs' = [fs EXCEPT !.sourceErr = ~fs.sourceErr]
    /\ UNCHANGED <<hyd, hist>>

\* A rendering attempt for commit c begins in this step.
attemptBegins(c) ==
    /\ hyd.pc = "idle"
    /\ \/ hyd'.pc = "building" /\ hyd'.commit = c
       \/ hist'[c] > hist[c]

\* C9 (as stated): for every commit recorded in the done file the hydrator
\* makes at most one completed rendering attempt.
C9_AtMostOneAttempt ==
    \A c \in Commits : fs.done = c => hist[c] <= 1

\* C9 (amended): an attempt for the commit the done file records is begun
\* by the rehydrate timer only, and only while the error file is present;
\* the run timer begins an attempt only for a commit the done file does not
\* record.
C9_RepeatedOnlyByRehydrateOnError ==
    [][\A c \in Commits :
          (attemptBegins(c) /\ fs.done = c) => (hyd'.tick = "rehydrate" /\ fs.errorFile)]_vars

C9_Witness ==
    /\ hyd.pc = "idle" /\ hyd.tick = "rehydrate" /\ hyd.last = "rendered"
    /\ fs.done = hyd.commit /\ hist[hyd.commit] = 2 /\ ~fs.errorFile

\* This step is a tick of the rehydrate timer.
rehydrateTicks == hyd.pc = "idle" /\ hyd'.seq # hyd.seq /\ hyd'.tick = "rehydrate"

\* C10: a rehydrate-timer tick starts a rendering only when the error file is
\* present; with the error file absent it renders nothing and leaves the done
\* file, the error file and the hydrated link as they are.
C10_RehydrateOnlyOnError ==
    [][rehydrateTicks =>
          /\ hyd'.pc = "building" => fs.errorFile
          /\ ~fs.errorFile => (hyd'.pc = "idle" /\ hist' = hist
                                 /\ fs'.done = fs.done /\ fs'.errorFile = fs.errorFile
                                 /\ fs'.link = fs.link)]_vars

C10_Witness ==
    /\ hyd.pc = "idle" /\ hyd.tick = "rehydrate" /\ hyd.last = "noErrorFile"
    /\ ~fs.errorFile /\ fs.done # NoCommit /\ fs.link = fs.done

\* This step is a tick of the run timer.
runTicks == hyd.pc = "idle" /\ hyd'.seq # hyd.seq /\ hyd'.tick = "run"

\* C11: a run-timer tick starts processing the source commit only when that
\* commit differs from the commit the done file records; a commit the done
\* file already records is skipped, with the files left as they are, and a
\* readable source commit the done file does not record is processed.
C11_RunOnlyForUndoneCommit ==
    [][runTicks =>
          /\ attemptBegins(fs.source) => (~fs.sourceErr /\ fs.done # fs.source)
          /\ (~fs.sourceErr /\ fs.done = fs.source) =>
                (hyd'.last = "skipped" /\ hyd'.pc = "idle" /\ fs' = fs /\ hist' = hist)
          /\ (~fs.sourceErr /\ fs.done # fs.source) => attemptBegins(fs.source)]_vars

C11_Witness ==
    /\ hyd.pc = "idle" /\ hyd.tick = "run" /\ hyd.last = "skipped"
    /\ fs.done = fs.source /\ hyd.commit = fs.source /\ fs.errorFile
    /\ hist[fs.source] = 1

\* An attempt for commit c ends in this step: complete has been called.
attemptEnds(c) == hist'[c] > hist[c]

\* C12: every rendering attempt that ends, whether it succeeded, failed in
\* the build, was refused for a Kustomization in a sub-directory or was
\* overtaken by a new source commit, leaves the done file holding the commit
\* of the attempt (complete having written its files).
C12_DoneAfterEveryAttempt ==
    [][\A c \in Commits :
          (attemptEnds(c) /\ hyd'.last # "incomplete") =>
              /\ fs'.done = c
              /\ fs'.errorFile = (hyd'.last \in {"failed", "transient"})]_vars

C12_Witness ==
    /\ hyd.pc = "idle" /\ hyd.tick = "run" /\ hyd.last = "failed"
    /\ fs.tree[hyd.commit] = "kustomize"
    /\ fs.done = hyd.commit /\ fs.errorFile /\ hist[hyd.commit] = 1

\* The render of hyd.commit ends in this step with its build succeeded and
\* the source link moved to another commit since the render began.
overtaken ==
    /\ hyd.pc = "building" /\ hyd'.pc # "building"
    /\ fs.source # hyd.commit
    /\ fs'.dirs[hyd.commit] = "complete"

\* The last attempt was overtaken by a new source commit and recorded so.
overtakenRecorded == hyd.pc = "idle" /\ hyd.last = "transient"

\* A later tick has begun an attempt, has found the source unreadable, or
\* the attempts followed for the source commit are used up.
laterAttempt ==
    \/ hyd.pc = "building"
    \/ hyd.last \in {"noRender", "failed", "incomplete", "sourceError"}
    \/ hist[fs.source] >= MaxAttempts

\* C13 (as stated): the output of an overtaken render is discarded and is
\* never reachable through the hydrated link, and the render is retried.
C13_OvertakenOutputDiscarded ==
    /\ [][overtaken => (fs'.dirs[hyd.commit] = "absent" /\ fs'.link # hyd.commit)]_vars
    /\ overtakenRecorded ~> laterAttempt

\* C13 (amended): an overtaken render ends with a transient error and never
\* switches the hydrated link; its directory stays on disk (and stays the
\* link's target when the link pointed at it before); the error file and the
\* done file then record the attempt, and a later tick begins an attempt for
\* the source commit, unless the source cannot be read.
C13_OvertakenNotSwitched ==
    /\ [][overtaken =>
             /\ fs'.link = fs.link
             /\ fs'.dirs = [fs.dirs EXCEPT ![hyd.commit] = "complete"]
             /\ hyd'.pc = "idle" /\ hyd'.last \in {"transient", "incomplete"}
             /\ hyd'.last = "transient" => (fs'.errorFile /\ fs'.done = hyd.commit)]_vars
    /\ overtakenRecorded ~> laterAttempt

C13_Witness ==
    /\ overtakenRecorded
    /\ fs.source # hyd.commit /\ fs.dirs[hyd.commit] = "complete"
    /\ fs.link # hyd.commit /\ fs.errorFile /\ fs.done = hyd.commit

\* hydrate clears the hydrated root in this step.
rootCleared == fs'.link = NoCommit /\ fs'.dirs = NoDirs /\ hyd'.last \in {"noRender", "incomplete"}

\* kustomizeBuild starts to write into the directory the link points at.
renderInPlace(c) == hyd.pc = "idle" /\ hyd'.pc = "building" /\ hyd'.commit = c /\ fs.link = c

\* C14 (as stated): the hydrated link, when it exists, resolves to a
\* completely rendered directory at every instant.
C14_LinkAlwaysComplete ==
    fs.link # NoCommit => fs.dirs[fs.link] = "complete"

\* C14 (amended): the link is switched in one step, only to a directory
\* whose build succeeded, and with the previous directory still in place; a
\* directory is removed only when the link does not point at it, or with the
\* whole hydrated root; the directory the link points at stops being complete
\* only when that same commit is rendered again, in place, or with the whole
\* hydrated root.
C14_SwapAtomicExceptInPlace ==
    [][/\ (fs'.link # fs.link /\ fs'.link # NoCommit) =>
              /\ fs'.dirs[fs'.link] = "complete"
              /\ fs.link # NoCommit =>
                     /\ fs'.dirs[fs.link] = fs.dirs[fs.link]
                     /\ hyd'.pc = "swapped" /\ hyd'.oldDir = fs.link
       /\ \A c \in Commits :
             /\ (fs.dirs[c] # "absent" /\ fs'.dirs[c] = "absent") =>
                    (fs.link # c \/ rootCleared)
             /\ (fs.link = c /\ fs.dirs[c] = "complete" /\ fs'.dirs[c] # "complete") =>
                    (renderInPlace(c) \/ rootCleared)]_vars

C14_Witness ==
    /\ hyd.pc = "swapped" /\ fs.link = hyd.commit /\ hyd.oldDir # hyd.commit
    /\ fs.dirs[fs.link] = "complete" /\ fs.dirs[hyd.oldDir] = "complete"

\* C15 (as stated): every attempt that ends for a commit whose sync directory
\* holds no Kustomization anywhere leaves the hydrated root cleared: no
\* hydrated link, no rendered directory, no error file.
C15_PlainTreeClearsRoot ==
    [][\A c \in Commits :
          (attemptEnds(c) /\ fs.tree[c] = "plain" /\ hyd'.last # "incomplete") =>
              (fs'.link = NoCommit /\ fs'.dirs = NoDirs /\ ~fs'.errorFile)]_vars

(***************************************************************************)
(* The teardown of a RepoSync (claims C16 to C20), on the RepoSync manager *)
(* of PART 2.                                                              *)
(***************************************************************************)
\* The subject of key is among the subjects of its namespace's RoleBinding.
subjectBound(key) ==
    /\ roleBinding[key.namespace].exists
    /\ \E i \in 1..Len(roleBinding[key.namespace].subjects) :
          roleBinding[key.namespace].subjects[i] = serviceAccountSubject(key)

\* The resources the manager owns for key are all gone.
nothingOwned(key) == managed[key] = {} /\ ~subjectBound(key)

\* This step creates a resource owned for key, or adds its subject to the
\* RoleBinding.
provisions(key) ==
    /\ lastRec'.op = "Reconcile"
    /\ \/ ~(managed'[key] \subseteq managed[key])
       \/ (nothingOwned(key) /\ ~nothingOwned(key)')

\* C16 (as stated): a Reconcile creates an owned resource for a RepoSync only
\* when the RepoSync carries the manager's finalizer by the end of that call.
C16_FinalizerBeforeProvisioning ==
    [][\A key \in DOMAIN repoSyncObjs :
          provisions(key) => (repoSyncObjs'[key].exists /\ repoSyncObjs'[key].finalizer)]_vars

\* C17 (as stated): a RepoSync that is gone from the API server has nothing
\* owned left: its teardown completed while it still existed.
C17_TeardownBeforeGone ==
    \A key \in DOMAIN repoSyncObjs : ~repoSyncObjs[key].exists => nothingOwned(key)

\* This step is a Reconcile of key that finds it deleted and returns no error.
teardownReturns(key) ==
    /\ lastRec'.op = "Reconcile" /\ ~lastRec'.err
    /\ ~repoSyncObjs[key].exists /\ key \in repoSyncs

\* This step is a Reconcile of key that stalls on its invalid spec.
stallsOnSpec(key) ==
    /\ lastRec'.op = "Reconcile" /\ ~lastRec'.err
    /\ repoSyncObjs[key].exists /\ ~repoSyncObjs[key].valid
    /\ validateNamespaceName(key.namespace) /\ IsDNS1123Subdomain(key)

\* C18: a Reconcile that stalls on an invalid spec still enters the RepoSync
\* among those the manager cleans up after and leaves what is owned for it in
\* place; and the Reconcile that finds a RepoSync deleted, its spec valid or
\* not when it went, and returns no error has removed its Deployment,
\* ServiceAccount, copied Secret and its subject of the RoleBinding.
C18_InvalidStillTornDown ==
    [][\A key \in DOMAIN repoSyncObjs :
          /\ stallsOnSpec(key) =>
                (key \in repoSyncs' /\ managed'[key] = managed[key]
                   /\ repoSyncObjs'[key].status.stalled = "Validation")
          /\ teardownReturns(key) => (nothingOwned(key)' /\ key \notin repoSyncs')]_vars

C18_Witness ==
    /\ lastRec.op = "Reconcile" /\ ~lastRec.err /\ lastRec.outcome = "cleaned"
    /\ \E key \in DOMAIN repoSyncObjs :
          /\ repoSyncObjs[key] = [exists |-> FALSE, valid |-> FALSE]
          /\ nothingOwned(key) /\ key \notin repoSyncs
          /\ roleBinding[key.namespace].exists

\* C19 (as stated): teardown removes the subject from the RoleBinding only
\* after the Deployment, the ServiceAccount and the copied Secret are
\* deleted, and the RepoSync stays until all of that is done.
C19_TeardownOrder ==
    [][\A key \in DOMAIN repoSyncObjs :
          (lastRec'.op = "Reconcile" /\ subjectBound(key) /\ ~subjectBound(key)') =>
              /\ managed'[key] \cap {"Deployment", "ServiceAccount", "Secret"} = {}
              /\ repoSyncObjs[key].exists]_vars

\* The teardown of key is pending with nothing owned left to delete: the
\* RepoSync is gone, the manager still has it entered, and neither an owned
\* resource nor the namespace's RoleBinding exists.
teardownOfNothing(key) ==
    /\ ~repoSyncObjs[key].exists /\ key \in repoSyncs
    /\ managed[key] = {} /\ ~roleBinding[key.namespace].exists

\* The teardown of key is over, or the RepoSync was created again.
teardownOver(key) == key \notin repoSyncs \/ repoSyncObjs[key].exists

\* C20 (as stated): a teardown that finds nothing owned left to delete
\* completes: the manager stops returning an error for it.
C20_TeardownOfNothingCompletes ==
    \A key \in RepoSyncRefs :
        (key \in DOMAIN repoSyncObjs /\ teardownOfNothing(key)) ~>
            (key \in DOMAIN repoSyncObjs /\ teardownOver(key))

(***************************************************************************)
(* Reconcile of a RepoSync: stale reads, repeated reconciles, validation   *)
(* and the observed generation (claims C21 to C24 and C28).                *)
(***************************************************************************)
\* C21 (as stated): a Reconcile that read the RepoSync at the resourceVersion
\* the manager reconciled last returns no error.
C21_StaleReadNoError ==
    (lastRec.op = "Reconcile" /\ lastRec.outcome = "stale") => ~lastRec.err

\* The status Reconcile writes for key after a failed validation.
validationStalled(key) ==
    [repoSyncObjs[key].status EXCEPT !.stalled = "Validation",
                                     !.observedGeneration = repoSyncObjs[key].generation]

\* This step is a Reconcile of key that gets the RepoSync, not from a stale
\* cache, and finds its namespace, its reconciler name or its spec invalid.
failsValidation(key) ==
    /\ lastRec'.op = "Reconcile" /\ lastRec'.outcome = "stalled"
    /\ repoSyncObjs[key].exists /\ ~passesValidation(key)

\* C24: a Reconcile that fails validation provisions nothing; it returns no
\* error exactly when the RepoSync then carries Stalled with reason
\* "Validation" for its generation, and returns an error only when the
\* status update it had to send failed, the status staying as it was.
C24_ValidationStallsWithoutError ==
    [][\A key \in DOMAIN repoSyncObjs :
          failsValidation(key) =>
              /\ managed' = managed /\ roleBinding' = roleBinding
              /\ ~lastRec'.err => repoSyncObjs'[key].status = validationStalled(key)
              /\ lastRec'.err => (/\ repoSyncObjs'[key].status = repoSyncObjs[key].status
                                  /\ repoSyncObjs[key].status # validationStalled(key))]_vars

C24_Witness ==
    /\ lastRec.op = "Reconcile" /\ lastRec.outcome = "stalled" /\ ~lastRec.err
    /\ \E key \in DOMAIN repoSyncObjs :
          /\ repoSyncObjs[key].exists /\ ~repoSyncObjs[key].valid
          /\ repoSyncObjs[key].status.stalled = "Validation"
          /\ repoSyncObjs[key].status.observedGeneration = repoSyncObjs[key].generation
          /\ key \in lastReconciled

\* C28: while a RepoSync exists, the observedGeneration in its status never
\* decreases and never exceeds its generation; a Reconcile that changes the
\* status sets observedGeneration to the generation it read.
C28_ObservedGenerationMonotonic ==
    [][\A key \in DOMAIN repoSyncObjs :
          (repoSyncObjs[key].exists /\ repoSyncObjs'[key].exists) =>
              /\ repoSyncObjs'[key].status.observedGeneration
                    >= repoSyncObjs[key].status.observedGeneration
              /\ repoSyncObjs'[key].status.observedGeneration <= repoSyncObjs'[key].generation
              /\ repoSyncObjs'[key].status # repoSyncObjs[key].status =>
                    repoSyncObjs'[key].status.observedGeneration = repoSyncObjs[key].generation]_vars

C28_Witness ==
    \E key \in DOMAIN repoSyncObjs :
        /\ repoSyncObjs[key].exists /\ repoSyncObjs[key].generation = MaxGen
        /\ repoSyncObjs[key].status.observedGeneration = MaxGen
        /\ lastRec.op = "Reconcile" /\ ~lastRec.err

(***************************************************************************)
(* The reconciler Deployment across reconciles (claims C22 and C23).       *)
(***************************************************************************)

\* A Reconcile of key that got as far as upsertDeployment.
reachesDeployment(key) ==
    /\ lastRec'.op = "Reconcile"
    /\ lastRec'.deployOp # "none"
    /\ repoSyncObjs[key].exists

\* What the manager owns for key is all there, as a successful reconcile of
\* the same spec left it: the Secret, the ServiceAccount, the subject in the
\* RoleBinding, and a Deployment whose declared fields are what this
\* reconcile computes.
ownedUpToDate(key) ==
    /\ {"Secret", "ServiceAccount", "Deployment"} \subseteq managed[key]
    /\ subjectBound(key)
    /\ deployment'[key].owned = deployment[key].owned

C23_OwnedRevertedUnownedKept ==
    [][\A key \in DOMAIN repoSyncObjs :
          (reachesDeployment(key) /\ "Deployment" \in managed[key]) =>
              /\ ~deployment'[key].owned.manual
              /\ deployment[key].owned.manual => lastRec'.deployOp = "updated"
              /\ deployment'[key].unowned = deployment[key].unowned]_vars

C23_Witness ==
    /\ lastRec.op = "Reconcile" /\ lastRec.outcome = "reconciled" /\ ~lastRec.err
    /\ lastRec.deployOp = "updated"
    /\ \E key \in DOMAIN repoSyncObjs :
          /\ repoSyncObjs[key].exists
          /\ repoSyncObjs[key].generation = 1
          /\ ~deployment[key].owned.notify
          /\ ~deployment[key].owned.manual
          /\ deployment[key].unowned

(***************************************************************************)
(* Parser status writes: the skipped update, the retry after a 413 and the *)
(* error summary (claims C25 to C27).                                      *)
(***************************************************************************)

\* A call of the parser (source, rendering or sync) whose Update request the
\* API server accepted.
parserUpdateAccepted ==
    lastOp'.result = "written" /\ lastOp'.op \in {"source", "rendering", "sync"}

\* C25: an Update request of a parser status write carries a status that
\* differs from the fetched one in more than its timestamps; a write whose
\* mutated status equals the fetched one but for timestamps sends none.
C25_NoUpdateWhenEqual ==
    [][parserUpdateAccepted => IgnoreTimestamps(rsStatus') # IgnoreTimestamps(rsStatus)]_vars

\* C25 witness: a write was skipped on a status that the source, rendering
\* and sync writers have all written before.
C25_Witness ==
    /\ lastOp.result = "skipped" /\ lastOp.k = defaultDenominator
    /\ rsStatus.source.lastUpdate /\ rsStatus.rendering.lastUpdate /\ rsStatus.sync.lastUpdate
    /\ Len(rsStatus.source.errors) > 0

\* Largest number of errors a stage reports where the retries after a 413
\* are followed through several denominators.
ManyErrs == 4

\* The request limits of the API server for those error lists.
ManyServers == [limit : 0..(2 * ManyErrs), fail : {"none"}]

\* root.setSourceStatus / namespace.setSourceStatus with up to ManyErrs errors.
setSourceStatusOfMany ==
    \E n \in 0..ManyErrs, srv \in ManyServers :
        LET out == setSourceStatusWithRetries(rsStatus,
                       [commit |-> "c1", errs |-> ToCSE("source", n)], defaultDenominator, srv)
        IN /\ rsStatus' = out.status
           /\ lastOp' = Observe("source", out)

\* root.SetSyncStatus / namespace.SetSyncStatus with up to ManyErrs errors.
SetSyncStatusOfMany ==
    \E n \in 0..ManyErrs, syncing \in BOOLEAN, srv \in ManyServers :
        LET out == setSyncStatusWithRetries(rsStatus,
                       [commit |-> "c1", errs |-> ToCSE("sync", n), syncing |-> syncing],
                       defaultDenominator, srv)
        IN /\ rsStatus' = out.status
           /\ lastOp' = Observe("sync", out)

\* The call that just returned wrote the status after at least one 413.
writtenAfterRetry(op) ==
    lastOp'.op = op /\ lastOp'.result = "written" /\ lastOp'.k > defaultDenominator

\* The error list and its summary after a write that was retried: the first
\* floor(N / 2^k) of the N errors stage reports, marked as truncated.
firstErrorsKept(stage, errors, summary, k) ==
    /\ ~summary.isNil /\ summary.truncated
    /\ errors = SubSeq(ToCSE(stage, summary.totalCount), 1, halve(summary.totalCount, k))

\* C26: a status write that the API server rejected with 413 and that was
\* then written with the denominator 2^k, k > 0, holds the first
\* floor(N / 2^k) of the N errors, errorSummary.truncated = true on the list,
\* and truncated = true in the summary of the Syncing condition.
C26_RetryKeepsFirstErrors ==
    [][/\ writtenAfterRetry("source") =>
             /\ firstErrorsKept("source", rsStatus'.source.errors,
                                rsStatus'.source.errorSummary, lastOp'.k)
             /\ rsStatus'.syncing.errorSummary.truncated
       /\ writtenAfterRetry("sync") =>
             /\ firstErrorsKept("sync", rsStatus'.sync.errors,
                                rsStatus'.sync.errorSummary, lastOp'.k)
             /\ rsStatus'.syncing.errorSummary.truncated]_vars

\* C26 witness: a source status of four errors written at the third try, with
\* denominator 4, holding the first of them.
C26_Witness ==
    /\ lastOp.op = "source" /\ lastOp.result = "written" /\ lastOp.k = 2
    /\ rsStatus.source.errorSummary.totalCount = ManyErrs
    /\ rsStatus.source.errorSummary.truncated
    /\ rsStatus.source.errors = <<<<"source", 1>>>>

\* The number of errors a summary counts; no summary counts none.
totalOf(summary) == IF summary.isNil THEN 0 ELSE summary.totalCount

\* C27: every error list written to the status has in errorSummary.totalCount
\* the number of errors it had before any truncation: the retained errors
\* are that count divided by the denominator of the write, and a sync list
\* to which the remediator prepended conflicts counts the errors it counted
\* before and the conflicts added.
C27_TotalCountBeforeTruncation ==
    [][lastOp'.result = "written" =>
          /\ lastOp'.op = "source" =>
                Len(rsStatus'.source.errors) = halve(totalOf(rsStatus'.source.errorSummary), lastOp'.k)
          /\ lastOp'.op = "rendering" =>
                Len(rsStatus'.rendering.errors) = halve(totalOf(rsStatus'.rendering.errorSummary), lastOp'.k)
          /\ lastOp'.op = "sync" =>
                Len(rsStatus'.sync.errors) = halve(totalOf(rsStatus'.sync.errorSummary), lastOp'.k)
          /\ (lastOp'.op = "remediator" /\ lastOp'.k = defaultDenominator) =>
                totalOf(rsStatus'.sync.errorSummary) =
                    totalOf(rsStatus.sync.errorSummary)
                        + (Len(rsStatus'.sync.errors) - Len(rsStatus.sync.errors))]_vars

(***************************************************************************)
(* PART 6.  The root parser's implicit namespaces                          *)
(* (root.addImplicitNamespaces; claims C29 and C30).                       *)
(***************************************************************************)

\* Largest number of objects declared in the source.
MaxObjs == 3

\* The namespaces objects may name; one is configsync.ControllerNamespace.
NamespaceNames == {ControllerNamespace, "bookstore", "shipping"}

\* A Namespace object declared in the source.
NamespaceObj(n) == [kind |-> "Namespace", name |-> n, namespace |-> "", preventDeletion |-> FALSE]

\* The objects a source may declare: Namespaces, a ConfigMap in each
\* namespace, and a cluster-scoped object that is not a Namespace.
DeclaredObjects ==
    {NamespaceObj(n) : n \in NamespaceNames}
        \cup {[kind |-> "ConfigMap", name |-> "cm", namespace |-> n, preventDeletion |-> FALSE] :
                 n \in NamespaceNames}
        \cup {[kind |-> "ClusterRole", name |-> "cr", namespace |-> "", preventDeletion |-> FALSE]}

\* Lists of distinct declared objects, as validation leaves them.
ObjectLists ==
    {l \in UNION {[1..n -> DeclaredObjects] : n \in 0..MaxObjs} :
        \A i, j \in 1..Len(l) : i # j => l[i] # l[j]}

\* What p.client.Get finds for a Namespace of the cluster: it is absent,
\* managed by this RootSync, managed by another reconciler, managed by nobody,
\* or the request fails with an error other than NotFound.
ClusterStates == {"absent", "self", "other", "unmanaged", "getError"}

\* The unstructured Namespace appended for ns, with
\* common.LifecycleDeleteAnnotation: common.PreventDeletion.
ImplicitNamespace(ns) == [kind |-> "Namespace", name |-> ns, namespace |-> "", preventDeletion |-> TRUE]

\* namespaces[k] = v on a Go map.
setKey(f, k, v) == [x \in DOMAIN f \cup {k} |-> IF x = k THEN v ELSE f[x]]

\* The first loop: the namespaces the objects name, true for the declared.
RECURSIVE trackNamespaces(_, _)
trackNamespaces(objs, namespaces) ==
    IF objs = <<>> THEN namespaces
    ELSE LET o == Head(objs)
             isTrue(n) == n \in DOMAIN namespaces /\ namespaces[n]
         IN trackNamespaces(Tail(objs),
                IF o.kind = "Namespace" THEN setKey(namespaces, o.name, TRUE)
                ELSE IF o.namespace # "" /\ ~isTrue(o.namespace)
                     THEN setKey(namespaces, o.namespace, FALSE)
                ELSE namespaces)

\* The test without the controller's namespace.
skipsDeclaredOnly(ns, isDeclared) == isDeclared

\* isDeclared || ns == configsync.ControllerNamespace
skipsNamespace(ns, isDeclared) == isDeclared \/ ns = ControllerNamespace

\* A test that also takes a Namespace nobody manages for its own.
IsManagerOrUnmanaged(state) == state \in {"self", "unmanaged"}

\* diff.IsManager(p.scope, p.syncName, existingNs)
IsManager(state) == state = "self"

\* The second loop, over the map in the order Go happens to range it.
RECURSIVE appendImplicit(_, _, _, _)
appendImplicit(order, namespaces, cluster, acc) ==
    IF order = <<>> THEN acc
    ELSE LET ns == Head(order)
             rest == Tail(order)
         IN IF skipsNamespace(ns, namespaces[ns])
            THEN appendImplicit(rest, namespaces, cluster, acc)
            ELSE IF cluster[ns] = "getError"
            THEN appendImplicit(rest, namespaces, cluster,
                                [acc EXCEPT !.errs = Append(@, ns)])
            ELSE IF cluster[ns] # "absent" /\ ~IsManager(cluster[ns])
            THEN appendImplicit(rest, namespaces, cluster, acc)
            ELSE appendImplicit(rest, namespaces, cluster,
                                [acc EXCEPT !.objs = Append(@, ImplicitNamespace(ns))])

\* The orders in which a range over a map with these keys can go.
RangeOrders(keys) ==
    {s \in [1..Cardinality(keys) -> keys] : \A i, j \in DOMAIN s : i # j => s[i] # s[j]}

addImplicitNamespaces(objs, cluster, order) ==
    appendImplicit(order, trackNamespaces(objs, <<>>), cluster,
                   [done |-> TRUE, objs |-> objs, errs |-> <<>>])

NotParsed == [done |-> FALSE, objs |-> <<>>, errs |-> <<>>]

ParserInit ==
    \E objs \in ObjectLists, cluster \in [NamespaceNames -> ClusterStates] :
        /\ parseIn = [objs |-> objs, cluster |-> cluster]
        /\ parseOut = NotParsed

\* root.addImplicitNamespaces on the validated objects.
AddImplicitNamespaces ==
    /\ ~parseOut.done
    /\ \E order \in RangeOrders(DOMAIN trackNamespaces(parseIn.objs, <<>>)) :
          parseOut' = addImplicitNamespaces(parseIn.objs, parseIn.cluster, order)
    /\ UNCHANGED parseIn

\* A declared object lives in namespace n; a Namespace n is declared.
referenced(n) == \E i \in 1..Len(parseIn.objs) :
                    parseIn.objs[i].kind # "Namespace" /\ parseIn.objs[i].namespace = n
declared(n) == \E i \in 1..Len(parseIn.objs) : parseIn.objs[i] = NamespaceObj(n)

\* The Namespaces the parser appended for n.
appended(n) ==
    {i \in (Len(parseIn.objs) + 1)..Len(parseOut.objs) : parseOut.objs[i].name = n}

\* The appended objects are Namespaces with the prevent-deletion annotation,
\* behind the declared objects.
appendedAreImplicit ==
    /\ SubSeq(parseOut.objs, 1, Len(parseIn.objs)) = parseIn.objs
    /\ \A i \in (Len(parseIn.objs) + 1)..Len(parseOut.objs) :
          \E n \in NamespaceNames : parseOut.objs[i] = ImplicitNamespace(n)

\* C29: the parser never appends a Namespace for the controller's own
\* namespace, whatever is declared in it and whatever the cluster holds.
C29_ControllerNamespaceNeverImplicit ==
    parseOut.done => appended(ControllerNamespace) = {}

\* C29 witness: objects are declared in the controller's namespace and in
\* another one, neither Namespace is declared nor exists, and only the other
\* one was appended.
C29_Witness ==
    /\ parseOut.done
    /\ referenced(ControllerNamespace) /\ ~declared(ControllerNamespace)
    /\ parseIn.cluster[ControllerNamespace] = "absent"
    /\ referenced("bookstore") /\ appended("bookstore") # {}

\* C30: every referenced namespace that is not declared and does not exist
\* under a different manager gets exactly one appended Namespace with the
\* prevent-deletion annotation, and one that exists under a different manager
\* gets none (where the existence check itself succeeded).
C30_OneImplicitPerReferenced ==
    parseOut.done =>
        /\ appendedAreImplicit
        /\ \A n \in NamespaceNames :
              (referenced(n) /\ ~declared(n) /\ parseIn.cluster[n] # "getError") =>
                  Cardinality(appended(n)) = IF parseIn.cluster[n] = "other" THEN 0 ELSE 1

\* C30 as the code has it: a Namespace is appended, once and with the
\* prevent-deletion annotation, exactly for the referenced namespaces that
\* are not declared, are not the controller's namespace, and are absent from
\* the cluster or managed by this RootSync; a failed existence check is
\* reported as an error instead.
C30_ImplicitOnlyAbsentOrOwn ==
    parseOut.done =>
        /\ appendedAreImplicit
        /\ \A n \in NamespaceNames :
              Cardinality(appended(n)) =
                  IF /\ referenced(n) /\ ~declared(n) /\ n # ControllerNamespace
                     /\ parseIn.cluster[n] \in {"absent", "self"}
                  THEN 1 ELSE 0
        /\ \A n \in NamespaceNames :
              (\E i \in 1..Len(parseOut.errs) : parseOut.errs[i] = n) <=>
                  /\ referenced(n) /\ ~declared(n) /\ n # ControllerNamespace
                  /\ parseIn.cluster[n] = "getError"

\* C30 witness: two namespaces are referenced and not declared; the absent
\* one was appended, the one that exists unmanaged was not.
C30_Witness ==
    /\ parseOut.done
    /\ referenced("bookstore") /\ ~declared("bookstore")
    /\ parseIn.cluster["bookstore"] = "absent" /\ Cardinality(appended("bookstore")) = 1
    /\ referenced("shipping") /\ ~declared("shipping")
    /\ parseIn.cluster["shipping"] = "unmanaged" /\ appended("shipping") = {}

(***************************************************************************)
(* The remediator's conflict reports in status.sync.errors (claim C31).    *)
(***************************************************************************)

\* The entries of a list that report conflict j, under either of its messages.
conflictEntries(errors, j) ==
    {i \in 1..Len(errors) : errors[i] \in {ConflictCSE(j), ConflictPairCSE(j)}}

\* C31: a conflict report that is written puts conflict errors, none of which
\* was in the list, in front of the entries the list had (of the whole, the
\* first ones when the write was truncated), and no conflict is ever in
\* status.sync.errors twice.
C31_ConflictsInFrontOnce ==
    [][/\ (lastOp'.op = "remediator" /\ lastOp'.result = "written") =>
             \E fresh \in ConflictLists :
                 /\ Len(fresh) > 0
                 /\ \A i \in 1..Len(fresh) : conflictEntries(rsStatus.sync.errors, fresh[i]) = {}
                 /\ rsStatus'.sync.errors =
                        truncateErrors([i \in 1..Len(fresh) |-> ConflictCSE(fresh[i])]
                                           \o rsStatus.sync.errors, lastOp'.k)
       /\ \A j \in 1..MaxConflicts :
             Cardinality(conflictEntries(rsStatus'.sync.errors, j)) <= 1]_vars

\* C31 witness: the conflict stands in front of the sync error that was in
\* the list before the report.
C31_Witness ==
    /\ lastOp.op = "remediator" /\ lastOp.result = "written"
    /\ rsStatus.sync.errors = <<ConflictCSE(1), <<"sync", 1>>>>

(***************************************************************************)
(* PART 7.  Reconcile calls of the RepoSync controller under r.lock, and   *)
(* the RoleBinding the RepoSyncs of one namespace share (claim C32).       *)
(***************************************************************************)

\* The goroutines that may call Reconcile at the same time.
Callers == {"worker1", "worker2"}
NoHolder == "none"

\* The subjects of the two RepoSyncs of the namespace.
SharedKey == [namespace |-> "bookstore", name |-> "repo-sync", dns |-> TRUE]
SharedSubjects == {serviceAccountSubject(SharedKey), SiblingSubject(SharedKey)}

IdleCall == [pc |-> "idle", subject |-> <<>>, remove |-> FALSE, read |-> NoBinding, fresh |-> TRUE]

\* r.lock.Lock() returns at once whoever holds the lock.
canLockAlways(holder) == TRUE

\* r.lock.Lock() returns when nobody holds the lock.
canLock(holder) == holder = NoHolder

\* What the call makes of the subjects it read: addSubject in
\* upsertRoleBinding, removeSubject in deleteRoleBinding.
mutateSubjects(call, subjects) ==
    IF call.remove THEN removeSubject(subjects, call.subject)
    ELSE addSubject(subjects, call.subject)

\* The request the call sends after its Get, and what the API server makes
\* of it: Create fails when the object exists by now, Update fails when the
\* object changed since the Get (resourceVersion), Delete takes the object
\* as it is.
writeBinding(call, current) ==
    LET want == mutateSubjects(call, call.read.subjects)
    IN IF call.remove /\ ~call.read.exists THEN current
       ELSE IF call.read.exists /\ want = call.read.subjects THEN current
       ELSE IF call.remove /\ Len(want) = 0 THEN NoBinding
       ELSE IF ~call.fresh THEN current
       ELSE Binding(want)

ReconcileLockInit ==
    /\ lockHolder = NoHolder
    /\ calls = [c \in Callers |-> IdleCall]
    /\ sharedRB = NoBinding

\* A request for one of the RepoSyncs is handed to Reconcile: the RepoSync
\* exists (upsertRoleBinding) or is gone (deleteRoleBinding).
CallReconcile ==
    \E c \in Callers, subject \in SharedSubjects, remove \in BOOLEAN :
        /\ calls[c].pc = "idle"
        /\ calls' = [calls EXCEPT ![c] = [IdleCall EXCEPT !.pc = "waiting", !.subject = subject,
                                                          !.remove = remove]]
        /\ UNCHANGED <<lockHolder, sharedRB>>

\* r.lock.Lock()
LockReconcile ==
    \E c \in Callers :
        /\ calls[c].pc = "waiting"
        /\ canLock(lockHolder)
        /\ lockHolder' = c
        /\ calls' = [calls EXCEPT ![c].pc = "body"]
        /\ UNCHANGED sharedRB

\* r.client.Get of the RoleBinding (inside CreateOrUpdate or deleteRoleBinding)
GetRoleBinding ==
    \E c \in Callers :
        /\ calls[c].pc = "body"
        /\ calls' = [calls EXCEPT ![c].pc = "read", ![c].read = sharedRB, ![c].fresh = TRUE]
        /\ UNCHANGED <<lockHolder, sharedRB>>

\* The Create, Update or Delete that follows the Get.
PutRoleBinding ==
    \E c \in Callers :
        /\ calls[c].pc = "read"
        /\ sharedRB' = writeBinding(calls[c], sharedRB)
        /\ calls' = [d \in Callers |->
                        IF d = c THEN [calls[d] EXCEPT !.pc = "written"]
                        ELSE IF sharedRB' # sharedRB THEN [calls[d] EXCEPT !.fresh = FALSE]
                        ELSE calls[d]]
        /\ UNCHANGED lockHolder

\* defer r.lock.Unlock()
UnlockReconcile ==
    \E c \in Callers :
        /\ calls[c].pc = "written"
        /\ lockHolder' = NoHolder
        /\ calls' = [calls EXCEPT ![c] = IdleCall]
        /\ UNCHANGED sharedRB

\* The calls that are inside the body of Reconcile.
inBody == {c \in Callers : calls[c].pc \in {"body", "read", "written"}}

\* C32: at most one call is inside the body of Reconcile, and every change of
\* the shared RoleBinding is the subject of the writing call added to, or
\* removed from, the subjects the RoleBinding held at that moment: no
\* subject that another call added or removed in between is lost.
C32_ReconcileSerialized ==
    [][/\ Cardinality(inBody') <= 1
       /\ sharedRB' # sharedRB =>
             \E c \in Callers :
                 /\ calls[c].pc = "read" /\ calls'[c].pc = "written"
                 /\ sharedRB'.subjects = mutateSubjects(calls[c], sharedRB.subjects)]_vars

\* C32 witness: a call for one RepoSync waits for the lock while the call for
\* the other, which has read the RoleBinding with the first one's subject, is
\* about to write.
C32_Witness ==
    /\ calls["worker1"].pc = "read" /\ calls["worker2"].pc = "waiting"
    /\ calls["worker1"].subject # calls["worker2"].subject
    /\ calls["worker1"].remove /\ ~calls["worker2"].remove
    /\ sharedRB.exists /\ Len(sharedRB.subjects) = 1
    /\ sharedRB.subjects[1] = calls["worker1"].subject

(***************************************************************************)
(* PART 8.  The fetch-mutate-write sequences on one RootSync status: the   *)
(* parser's writers under p.mux and prependRootSyncRemediatorStatus        *)
(* (claim C33).                                                            *)
(***************************************************************************)

\* setSourceStatus, setRenderingStatus and SetSyncStatus lock p.mux.
ParserWriters == {"source", "rendering", "sync"}
\* prependRootSyncRemediatorStatus is a function of the package: it gets a
\* client and the name of the RootSync, and locks nothing.
StatusWriters == ParserWriters \cup {"remediator"}

IdleWriter == [pc |-> "idle", fresh |-> TRUE]
NoStatusWrite == [writer |-> "none", flip |-> FALSE]

\* p.mux.Lock() returns at once whoever holds the mutex.
muxFreeAlways(holder) == TRUE

\* p.mux.Lock() returns when nobody holds the mutex.
muxFree(holder) == holder = NoHolder

\* client.Status().Update of the object that was fetched: the API server
\* takes it when the object did not change since (resourceVersion).
updateAccepted(writer) == writer.fresh

StatusLockInit ==
    /\ muxHolder = NoHolder
    /\ writers = [w \in StatusWriters |-> IdleWriter]
    /\ statusObj = NoStatusWrite

\* The parser calls setSourceStatus, setRenderingStatus or SetSyncStatus.
CallStatusWrite ==
    \E w \in ParserWriters :
        /\ writers[w].pc = "idle"
        /\ writers' = [writers EXCEPT ![w].pc = "waiting"]
        /\ UNCHANGED <<muxHolder, statusObj>>

\* p.mux.Lock()
LockStatusWrite ==
    \E w \in ParserWriters :
        /\ writers[w].pc = "waiting"
        /\ muxFree(muxHolder)
        /\ muxHolder' = w
        /\ writers' = [writers EXCEPT ![w].pc = "entered"]
        /\ UNCHANGED statusObj

\* prependRootSyncRemediatorStatus is called.
CallPrepend ==
    /\ writers["remediator"].pc = "idle"
    /\ writers' = [writers EXCEPT !["remediator"].pc = "entered"]
    /\ UNCHANGED <<muxHolder, statusObj>>

\* client.Get of the RootSync
FetchStatus ==
    \E w \in StatusWriters :
        /\ writers[w].pc = "entered"
        /\ writers' = [writers EXCEPT ![w] = [pc |-> "fetched", fresh |-> TRUE]]
        /\ UNCHANGED <<muxHolder, statusObj>>

\* client.Status().Update of the mutated object
UpdateStatus ==
    \E w \in StatusWriters :
        /\ writers[w].pc = "fetched"
        /\ IF updateAccepted(writers[w])
           THEN /\ statusObj' = [writer |-> w, flip |-> ~statusObj.flip]
                /\ writers' = [v \in StatusWriters |->
                                  IF v = w THEN [writers[v] EXCEPT !.pc = "returning"]
                                  ELSE [writers[v] EXCEPT !.fresh = FALSE]]
           ELSE /\ statusObj' = statusObj
                /\ writers' = [writers EXCEPT ![w].pc = "returning"]
        /\ UNCHANGED muxHolder

\* The call returns; a parser writer's deferred p.mux.Unlock() runs.
ReturnStatusWrite ==
    \E w \in StatusWriters :
        /\ writers[w].pc = "returning"
        /\ writers' = [writers EXCEPT ![w] = IdleWriter]
        /\ muxHolder' = IF w \in ParserWriters THEN NoHolder ELSE muxHolder
        /\ UNCHANGED statusObj

\* The writers of a set that are inside their fetch-mutate-write sequence.
inSequence(ws) == {w \in ws : writers[w].pc \in {"entered", "fetched", "returning"}}

MaxNotifCommits == 2
\* The commits are numbered in the order they are synced; 0: nothing synced yet.
NotifCommits == 1..MaxNotifCommits
MaxPosts == 2

NoEvent == [commit |-> 0, delivered |-> FALSE, failed |-> FALSE, pending |-> FALSE]
NoNotificationStatus == [commit |-> 0, delivered |-> FALSE, failed |-> FALSE]

\* The engine takes every commit for new.
neverNotified(notified, commit) == FALSE

\* The engine's bookkeeping on the *Sync (the notified annotation): the
\* trigger fired for this lastSyncedCommit before.
alreadyNotified(notified, commit) == commit \in notified

\* The on-sync-synced trigger: the *Sync has a lastSyncedCommit.
triggerFires(rsync) == rsync.subscribed /\ rsync.commit # 0

\* notifications.CreateNotificationStatus(generation, commit, eventSequence)
CreateNotificationStatus(commit, event) ==
    [commit |-> commit, delivered |-> event.delivered, failed |-> event.failed]

\* notifications.IsNotificationStatusSame
IsNotificationStatusSame(a, b) == a = b

\* The closure notificationStatusUpdater returns: under its mutex, Get the
\* Notification, build the status, return when it is the same, UpdateStatus
\* otherwise.
notificationStatusUpdater(cur, event, updateFails) ==
    LET new == CreateNotificationStatus(event.commit, event)
    IN  IF IsNotificationStatusSame(cur, new) THEN [status |-> cur, op |-> "same"]
        ELSE IF updateFails THEN [status |-> cur, op |-> "error"]
        ELSE [status |-> new, op |-> "updated"]

NotificationInit ==
    /\ notifSync = [commit |-> 0, subscribed |-> FALSE, notified |-> {}]
    /\ posts = [c \in NotifCommits |-> 0]
    /\ events = NoEvent
    /\ notification = [status |-> NoNotificationStatus, op |-> "none", processed |-> FALSE]

\* The subscribe annotation is put on the *Sync.
Subscribe ==
    /\ ~notifSync.subscribed
    /\ notifSync' = [notifSync EXCEPT !.subscribed = TRUE]
    /\ UNCHANGED <<posts, events, notification>>

\* The reconciler finishes a sync: lastSyncedCommit becomes a new commit.
SyncedCommit ==
    \E c \in NotifCommits :
        /\ c > notifSync.commit
        /\ notifSync' = [notifSync EXCEPT !.commit = c]
        /\ UNCHANGED <<posts, events, notification>>

\* The controller's one worker processes the *Sync (an informer event or a
\* resync): it delivers when the trigger fires for a commit not notified
\* yet, records that on the *Sync, and hands the event sequence to the
\* callback.
ProcessResource ==
    \E sendFails \in BOOLEAN :
        /\ ~events.pending
        /\ LET c == notifSync.commit
               fires == triggerFires(notifSync)
               known == fires /\ alreadyNotified(notifSync.notified, c)
               sends == fires /\ ~known /\ ~sendFails
           IN  /\ sends => posts[c] < MaxPosts
               /\ posts' = IF sends THEN [posts EXCEPT ![c] = @ + 1] ELSE posts
               /\ notifSync' = IF sends THEN [notifSync EXCEPT !.notified = @ \cup {c}]
                               ELSE notifSync
               /\ events' = [commit |-> c, delivered |-> sends \/ known,
                             failed |-> fires /\ ~known /\ sendFails, pending |-> TRUE]
        /\ UNCHANGED notification

\* The event callback: statusUpdater(eventSequence).
EventCallback ==
    \E updateFails \in BOOLEAN :
        /\ events.pending
        /\ LET r == notificationStatusUpdater(notification.status, events, updateFails)
           IN  notification' = [status |-> r.status, op |-> r.op, processed |-> TRUE]
        /\ events' = NoEvent
        /\ UNCHANGED <<notifSync, posts>>

rendering(c) == hyd.pc \in {"building", "swapped"} /\ hyd.commit = c

\* C35 (as stated): while a render of commit C is in progress, begun by
\* either timer, the done file does not hold C.
C35_DoneNeverHoldsRendering ==
    \A c \in Commits : rendering(c) => fs.done # c

\* C35 (amended): while a render begun by the run timer is in progress
\* there is no done file, hydrate having removed it; a render begun by the
\* rehydrate timer starts with the done file left as it is, and no render in
\* progress changes the done file.
C35_DoneRemovedOnRunPathOnly ==
    [][/\ (hyd'.pc \in {"building", "swapped"} /\ hyd'.tick = "run") => fs'.done = NoCommit
       /\ (rehydrateTicks /\ hyd'.pc = "building") => fs'.done = fs.done
       /\ (hyd.pc \in {"building", "swapped"} /\ hyd'.pc \in {"building", "swapped"}) =>
              fs'.done = fs.done]_vars

\* C35 witness: the rehydrate timer renders again the commit the done file
\* holds.
C35_Witness ==
    /\ rendering(fs.source) /\ hyd.tick = "rehydrate"
    /\ fs.done = fs.source /\ fs.errorFile /\ hist[fs.source] = 1

(***************************************************************************)
(* A new source commit is processed in the end (claim C36), on the         *)
(* hydrator with its timers firing.                                        *)
(***************************************************************************)

\* The source moved away from c or became unreadable, a file operation of
\* complete failed in an attempt for c, or the attempts followed for c are
\* used up.
noLongerDue(c) ==
    \/ fs.source # c \/ fs.sourceErr
    \/ hyd.commit = c /\ hyd.last = "incomplete"
    \/ hist[c] >= MaxAttempts

\* C36: whenever the source is at commit c with no source error, then, as
\* long as c stays the source commit and the file operations of complete
\* succeed, an attempt for c ends and the done file holds c, whatever the
\* done file and the error file recorded for an older commit.
C36_NewCommitProcessed ==
    \A c \in Commits :
        (fs.source = c /\ ~fs.sourceErr) ~> (fs.done = c \/ noLongerDue(c))

\* C36 witness: an older commit was attempted and failed, the source moved
\* on, and the newer commit was rendered and recorded in the done file.
C36_Witness ==
    \E old \in Commits :
        /\ old # fs.source /\ hist[old] = 1 /\ fs.tree[old] = "subdir"
        /\ hyd.pc = "idle" /\ hyd.tick = "run" /\ hyd.commit = fs.source
        /\ hyd.last = "rendered" /\ hist[fs.source] = 1
        /\ fs.done = fs.source /\ ~fs.sourceErr /\ ~fs.errorFile

(***************************************************************************)
(* PART 10.  One status update followed call by call through its retries   *)
(* after 413 (claim C37): set*StatusWithRetries of the root and namespace  *)
(* parsers and prependRootSyncRemediatorStatus have the same loop.         *)
(***************************************************************************)

\* Largest size of the part of the object that truncation does not reduce.
MaxOther == 1

NoRetry ==
    [pc |-> "idle", k |-> defaultDenominator, attempts |-> 0, len |-> 0, other |-> 0,
     limit |-> 0, result |-> "none"]

\* denominator*2 in unbounded arithmetic, the exponent kept below IntBits.
doubleSaturating(k) == IF k + 1 >= IntBits THEN k ELSE k + 1

\* denominator*2 of Go's int, on the exponent: 2^(IntBits-1) * 2 wraps to a
\* negative number, which is exponent IntBits here.
doubleOnce(k) == k + 1

\* if denominator <= 0 { return fmt.Errorf(...) }
denominatorPositive(k) == k < IntBits

\* The size of the object of the Update: len/denominator errors retained,
\* and the rest of the object.
requestSize(r) == r.other + halve(r.len, r.k)

RetryInit == retry = NoRetry

\* The parser or the remediator calls the status update with
\* defaultDenominator.
CallStatusUpdate ==
    \E len \in 0..ManyErrs, other \in 0..MaxOther, limit \in 0..(ManyErrs + MaxOther) :
        /\ retry.pc \in {"idle", "returned"}
        /\ retry' = [NoRetry EXCEPT !.pc = "retrying", !.len = len, !.other = other,
                                    !.limit = limit]

\* One call of the function: the test of the denominator, Get, Update; after
\* a 413 it calls itself with denominator*2.
TryUpdate ==
    \E otherError \in BOOLEAN :
        /\ retry.pc = "retrying"
        /\ retry' =
              IF ~denominatorPositive(retry.k)
              THEN [retry EXCEPT !.pc = "returned", !.result = "error"]
              ELSE IF otherError
              THEN [retry EXCEPT !.pc = "returned", !.result = "error",
                                 !.attempts = IF @ > IntBits THEN @ ELSE @ + 1]
              ELSE IF requestSize(retry) > retry.limit
              THEN [retry EXCEPT !.k = doubleOnce(@),
                                 !.attempts = IF @ > IntBits THEN @ ELSE @ + 1]
              ELSE [retry EXCEPT !.pc = "returned", !.result = "written",
                                 !.attempts = IF @ > IntBits THEN @ ELSE @ + 1]

\* C37: a status update makes at most IntBits Update requests, also when
\* every one of them is answered 413 with no error left to drop, and every
\* update that was called returns.
C37_RetryTerminates ==
    /\ [](retry.attempts <= IntBits)
    /\ (retry.pc = "retrying") ~> (retry.pc = "returned")

\* C37 witness: the update returned an error after IntBits requests that were
\* all too large, the last ones with no error retained.
C37_Witness ==
    /\ retry.pc = "returned" /\ retry.result = "error"
    /\ retry.k = IntBits /\ retry.attempts = IntBits
    /\ retry.len > 0 /\ halve(retry.len, 3) = 0 /\ retry.other > retry.limit

(***************************************************************************)
(* The cleanup of a deleted RepoSync across a restart of the manager       *)
(* (claim C38), on the RepoSync manager with Reconcile running on.         *)
(***************************************************************************)

\* The RepoSync is gone, resources provisioned for it are left, and the
\* manager, restarted since, does not have it entered.
deletedAfterRestart(key) ==
    /\ ~repoSyncObjs[key].exists /\ ~nothingOwned(key)
    /\ key \notin repoSyncs

\* C38 (as stated, for the restarted manager): whenever a RepoSync is gone
\* while resources provisioned for it are left and the manager no longer has
\* it entered, those resources are cleaned up in the end (or the RepoSync is
\* created again).
C38_DeletedEventuallyCleanedUp ==
    \A key \in RepoSyncRefs :
        (key \in DOMAIN repoSyncObjs /\ deletedAfterRestart(key)) ~>
            (key \in DOMAIN repoSyncObjs /\ (nothingOwned(key) \/ repoSyncObjs[key].exists))

(***************************************************************************)
(* The webhook's own failures (claim C39), on the webhook.                 *)
(***************************************************************************)

\* Handle reaches, for the request, the Update branch of a principal that is
\* no Config Sync service account, on a managed object.
reviewsUpdate ==
    /\ req.mode \notin {"subResource", "convertError"}
    /\ ~isConfigSyncSA(req.user) /\ ~isResourceGroupRequest(req)
    /\ req.op = "UPDATE"
    /\ ManagedByConfigSync(req.oldObj) \/ ManagedByConfigSync(req.newObj)

\* handleUpdate reaches DeclaredFields and the annotation is missing.
declaredFieldsFail ==
    /\ reviewsUpdate /\ req.mode # "diffError"
    /\ ConfigSyncMetadata(differing) = {}
    /\ req.oldObj.lifecycle # IgnoreMutation
    /\ DeclaredFields(req.oldObj).err

\* allowNotificationAnnotation reaches FieldDiff and it fails.
exemptionDiffFails ==
    /\ req.mode = "diffError" /\ isConfigSyncSA(req.user)
    /\ LET c == convertObjects(req) IN allowOwnReconciler(req, c.oldObj, c.newObj, req.user)

\* A step of the webhook itself fails for the request.
cannotEvaluate ==
    \/ req.mode \in {"subResource", "convertError"}
    \/ reviewsUpdate /\ req.mode = "diffError"
    \/ declaredFieldsFail
    \/ exemptionDiffFails

\* C39 (as stated): a request for which a step of the webhook itself fails
\* is admitted.
C39_AdmitsWhenCannotEvaluate ==
    (resp.set /\ cannotEvaluate) => resp.allowed

\* C39 (amended): a sub-resource request, a request whose objects do not
\* convert, and an Update of a non-system principal whose diff cannot be
\* computed or whose declared fields are missing are admitted; when the diff
\* fails inside the notification exemption of a reconciler service account,
\* the exemption is withheld and the manager check alone decides.
C39_AdmitsExceptInExemption ==
    resp.set =>
        /\ (cannotEvaluate /\ ~exemptionDiffFails) => resp.allowed
        /\ exemptionDiffFails =>
              resp.allowed = ~ValidateManager(req.user, objectManager(req.oldObj, req.newObj))

\* C39 witness: an Update of a declared-free managed object by a user, with
\* only the spec changed, is admitted because its declared fields are missing.
C39_Witness ==
    /\ resp.set /\ declaredFieldsFail /\ differing = {"spec"}
    /\ resp.allowed /\ resp.via = "declaredError"

(***************************************************************************)
(* A failed upsert of an owned resource (claim C40), on the RepoSync       *)
(* manager.                                                                *)
(***************************************************************************)

\* Reconcile of key gets as far as its upserts.
reachesUpserts(key) == repoSyncObjs[key].exists /\ passesValidation(key)

\* C40: in every state, a Reconcile that gets to its upserts and has the
\* upsert of an owned resource fail (the auth Secret, the CA-cert Secret, the
\* ServiceAccount, the RoleBinding, the Notification, the Deployment) returns
\* an error, whether the status update that follows succeeds or fails; the
\* status it sends has Stalled with the kind of the resource as reason, which
\* the RepoSync then shows unless that update failed, and a failed update
\* leaves the status as it was.
C40_UpsertFailureStallsAndRequeues ==
    \A key \in DOMAIN repoSyncObjs :
        reachesUpserts(key) =>
            \A in \in ReconcileInputs(key) :
                (in.fail \in UpsertFailPoints /\ ~in.stale) =>
                    LET out == reconcileRepoSync(World, key, in)
                        st == out.w.objs[key].status
                    IN  /\ out.err /\ out.outcome = "stalled"
                        /\ IF in.statusFail = "status"
                           THEN st = repoSyncObjs[key].status
                           ELSE st.stalled = stalledReason(in.fail)

\* C40 witness: the upsert of the ServiceAccount failed and so did the status
\* update: Reconcile returned an error and the RepoSync shows no Stalled.
C40_Witness ==
    \E key \in DOMAIN repoSyncObjs :
        /\ lastRec.op = "Reconcile" /\ lastRec.err /\ lastRec.outcome = "stalled"
        /\ repoSyncObjs[key].exists /\ passesValidation(key)
        /\ managed[key] = {"Secret"} /\ repoSyncObjs[key].status.stalled = ""

(***************************************************************************)
(* Idle values of the components, and the specifications.                  *)
(***************************************************************************)
ManagerIdle ==
    /\ repoSyncObjs = <<>> /\ managed = <<>> /\ deployment = <<>> /\ roleBinding = <<>>
    /\ repoSyncs = {} /\ lastReconciled = {} /\ lastRec = NoRec
RootIdle == rootSyncObjs = <<>> /\ rootManaged = <<>> /\ crb = NoBinding /\ lastRoot = NoRootRec
WebhookIdle == req = <<>> /\ resp = <<>>
HydratorIdle == fs = <<>> /\ hyd = <<>> /\ hist = <<>>
ParserIdle == parseIn = <<>> /\ parseOut = <<>>
ReconcileLockIdle == lockHolder = NoHolder /\ calls = <<>> /\ sharedRB = NoBinding
StatusLockIdle == muxHolder = NoHolder /\ writers = <<>> /\ statusObj = NoStatusWrite
NotificationIdle == notifSync = <<>> /\ posts = <<>> /\ events = <<>> /\ notification = <<>>
RetryIdle == retry = <<>>

InitStatusSpec == StatusInit /\ ManagerIdle /\ RootIdle /\ WebhookIdle /\ HydratorIdle /\ ParserIdle /\ ReconcileLockIdle /\ StatusLockIdle /\ NotificationIdle /\ RetryIdle
NextStatus ==
    \/ setSourceStatus /\ UNCHANGED <<managerVars, rootVars, webhookVars, hydratorVars, parserVars, reconcileLockVars, statusLockVars, notificationVars, retryVars>>
    \/ setRenderingStatus /\ UNCHANGED <<managerVars, rootVars, webhookVars, hydratorVars, parserVars, reconcileLockVars, statusLockVars, notificationVars, retryVars>>
    \/ SetSyncStatus /\ UNCHANGED <<managerVars, rootVars, webhookVars, hydratorVars, parserVars, reconcileLockVars, statusLockVars, notificationVars, retryVars>>
    \/ PrependRemediatorStatus /\ UNCHANGED <<managerVars, rootVars, webhookVars, hydratorVars, parserVars, reconcileLockVars, statusLockVars, notificationVars, retryVars>>
SpecStatus == InitStatusSpec /\ [][NextStatus]_vars

\* The source and sync writers with longer error lists.
NextRetries ==
    \/ setSourceStatusOfMany /\ UNCHANGED <<managerVars, rootVars, webhookVars, hydratorVars, parserVars, reconcileLockVars, statusLockVars, notificationVars, retryVars>>
    \/ SetSyncStatusOfMany /\ UNCHANGED <<managerVars, rootVars, webhookVars, hydratorVars, parserVars, reconcileLockVars, statusLockVars, notificationVars, retryVars>>
SpecRetries == InitStatusSpec /\ [][NextRetries]_vars

StatusIdle == rsStatus = InitStatus /\ lastOp = NoOp

InitManagerSpec == ManagerInit /\ StatusIdle /\ RootIdle /\ WebhookIdle /\ HydratorIdle /\ ParserIdle /\ ReconcileLockIdle /\ StatusLockIdle /\ NotificationIdle /\ RetryIdle
NextManager ==
    \/ ReconcileRepoSync /\ UNCHANGED <<statusVars, rootVars, webhookVars, hydratorVars, parserVars, reconcileLockVars, statusLockVars, notificationVars, retryVars>>
    \/ CreateRepoSync /\ UNCHANGED <<statusVars, rootVars, webhookVars, hydratorVars, parserVars, reconcileLockVars, statusLockVars, notificationVars, retryVars>>
    \/ EditRepoSync /\ UNCHANGED <<statusVars, rootVars, webhookVars, hydratorVars, parserVars, reconcileLockVars, statusLockVars, notificationVars, retryVars>>
    \/ DeleteRepoSync /\ UNCHANGED <<statusVars, rootVars, webhookVars, hydratorVars, parserVars, reconcileLockVars, statusLockVars, notificationVars, retryVars>>
    \/ SiblingRoleBinding /\ UNCHANGED <<statusVars, rootVars, webhookVars, hydratorVars, parserVars, reconcileLockVars, statusLockVars, notificationVars, retryVars>>
    \/ RestartManager /\ UNCHANGED <<statusVars, rootVars, webhookVars, hydratorVars, parserVars, reconcileLockVars, statusLockVars, notificationVars, retryVars>>
SpecManager == InitManagerSpec /\ [][NextManager]_vars

\* The manager of one RepoSync whose reconciler Deployment is also edited by
\* hand.
InitDeploymentSpec ==
    /\ InitManagerSpec
    /\ \A key \in DOMAIN repoSyncObjs : validateNamespaceName(key.namespace) /\ IsDNS1123Subdomain(key)
NextDeployment ==
    \/ ReconcileRepoSync /\ UNCHANGED <<statusVars, rootVars, webhookVars, hydratorVars, parserVars, reconcileLockVars, statusLockVars, notificationVars, retryVars>>
    \/ CreateRepoSync /\ UNCHANGED <<statusVars, rootVars, webhookVars, hydratorVars, parserVars, reconcileLockVars, statusLockVars, notificationVars, retryVars>>
    \/ EditRepoSync /\ UNCHANGED <<statusVars, rootVars, webhookVars, hydratorVars, parserVars, reconcileLockVars, statusLockVars, notificationVars, retryVars>>
    \/ EditDeployment /\ UNCHANGED <<statusVars, rootVars, webhookVars, hydratorVars, parserVars, reconcileLockVars, statusLockVars, notificationVars, retryVars>>
SpecDeployment == InitDeploymentSpec /\ [][NextDeployment]_vars

\* The manager reconciles every RepoSync event, controller-runtime queues a
\* Reconcile again after one that returned an error, and faults of the API
\* server pass: a Reconcile that can return without error again and again is
\* eventually made.
SpecManagerFair ==
    /\ SpecManager
    /\ WF_vars(ReconcileRepoSync /\ UNCHANGED <<statusVars, rootVars, webhookVars, hydratorVars, parserVars, reconcileLockVars, statusLockVars, notificationVars, retryVars>>)
    /\ SF_vars(ReconcileRepoSync /\ ~lastRec'.err
                 /\ UNCHANGED <<statusVars, rootVars, webhookVars, hydratorVars, parserVars, reconcileLockVars, statusLockVars, notificationVars, retryVars>>)

InitRootSpec == RootInit /\ StatusIdle /\ ManagerIdle /\ WebhookIdle /\ HydratorIdle /\ ParserIdle /\ ReconcileLockIdle /\ StatusLockIdle /\ NotificationIdle /\ RetryIdle
NextRoot ==
    \/ ReconcileRootSync /\ UNCHANGED <<statusVars, managerVars, webhookVars, hydratorVars, parserVars, reconcileLockVars, statusLockVars, notificationVars, retryVars>>
    \/ CreateRootSync /\ UNCHANGED <<statusVars, managerVars, webhookVars, hydratorVars, parserVars, reconcileLockVars, statusLockVars, notificationVars, retryVars>>
    \/ EditRootSync /\ UNCHANGED <<statusVars, managerVars, webhookVars, hydratorVars, parserVars, reconcileLockVars, statusLockVars, notificationVars, retryVars>>
    \/ DeleteRootSync /\ UNCHANGED <<statusVars, managerVars, webhookVars, hydratorVars, parserVars, reconcileLockVars, statusLockVars, notificationVars, retryVars>>
SpecRoot == InitRootSpec /\ [][NextRoot]_vars

InitWebhookSpec == WebhookInit /\ StatusIdle /\ ManagerIdle /\ RootIdle /\ HydratorIdle /\ ParserIdle /\ ReconcileLockIdle /\ StatusLockIdle /\ NotificationIdle /\ RetryIdle
NextWebhook ==
    \/ HandleRequest /\ UNCHANGED <<statusVars, managerVars, rootVars, hydratorVars, parserVars, reconcileLockVars, statusLockVars, notificationVars, retryVars>>
SpecWebhook == InitWebhookSpec /\ [][NextWebhook]_vars

InitHydratorSpec == HydratorInit /\ StatusIdle /\ ManagerIdle /\ RootIdle /\ WebhookIdle /\ ParserIdle /\ ReconcileLockIdle /\ StatusLockIdle /\ NotificationIdle /\ RetryIdle
NextHydrator ==
    \/ RunTick /\ UNCHANGED <<statusVars, managerVars, rootVars, webhookVars, parserVars, reconcileLockVars, statusLockVars, notificationVars, retryVars>>
    \/ RehydrateTick /\ UNCHANGED <<statusVars, managerVars, rootVars, webhookVars, parserVars, reconcileLockVars, statusLockVars, notificationVars, retryVars>>
    \/ FinishRender /\ UNCHANGED <<statusVars, managerVars, rootVars, webhookVars, parserVars, reconcileLockVars, statusLockVars, notificationVars, retryVars>>
    \/ RemoveOldDir /\ UNCHANGED <<statusVars, managerVars, rootVars, webhookVars, parserVars, reconcileLockVars, statusLockVars, notificationVars, retryVars>>
    \/ NewCommit /\ UNCHANGED <<statusVars, managerVars, rootVars, webhookVars, parserVars, reconcileLockVars, statusLockVars, notificationVars, retryVars>>
    \/ SourceError /\ UNCHANGED <<statusVars, managerVars, rootVars, webhookVars, parserVars, reconcileLockVars, statusLockVars, notificationVars, retryVars>>
SpecHydrator == InitHydratorSpec /\ [][NextHydrator]_vars

\* Hydrator.Run resets each timer at the end of its tick, so each timer fires
\* again, and a kustomize build that was started returns.
SpecHydratorFair ==
    /\ SpecHydrator
    /\ WF_vars(RunTick /\ UNCHANGED <<statusVars, managerVars, rootVars, webhookVars, parserVars, reconcileLockVars, statusLockVars, notificationVars, retryVars>>)
    /\ WF_vars(RehydrateTick /\ UNCHANGED <<statusVars, managerVars, rootVars, webhookVars, parserVars, reconcileLockVars, statusLockVars, notificationVars, retryVars>>)
    /\ WF_vars(FinishRender /\ UNCHANGED <<statusVars, managerVars, rootVars, webhookVars, parserVars, reconcileLockVars, statusLockVars, notificationVars, retryVars>>)
    /\ WF_vars(RemoveOldDir /\ UNCHANGED <<statusVars, managerVars, rootVars, webhookVars, parserVars, reconcileLockVars, statusLockVars, notificationVars, retryVars>>)

InitParserSpec ==
    ParserInit /\ StatusIdle /\ ManagerIdle /\ RootIdle /\ WebhookIdle /\ HydratorIdle /\ ReconcileLockIdle /\ StatusLockIdle /\ NotificationIdle /\ RetryIdle
NextParser ==
    \/ AddImplicitNamespaces
         /\ UNCHANGED <<statusVars, managerVars, rootVars, webhookVars, hydratorVars, reconcileLockVars, statusLockVars, notificationVars, retryVars>>
SpecParser == InitParserSpec /\ [][NextParser]_vars

InitReconcileLockSpec ==
    /\ ReconcileLockInit
    /\ StatusIdle /\ ManagerIdle /\ RootIdle /\ WebhookIdle /\ HydratorIdle /\ ParserIdle
    /\ StatusLockIdle /\ NotificationIdle /\ RetryIdle
OnlyReconcileLock == UNCHANGED <<statusVars, managerVars, rootVars, webhookVars, hydratorVars, parserVars, statusLockVars, notificationVars, retryVars>>
NextReconcileLock ==
    \/ CallReconcile /\ OnlyReconcileLock
    \/ LockReconcile /\ OnlyReconcileLock
    \/ GetRoleBinding /\ OnlyReconcileLock
    \/ PutRoleBinding /\ OnlyReconcileLock
    \/ UnlockReconcile /\ OnlyReconcileLock
SpecReconcileLock == InitReconcileLockSpec /\ [][NextReconcileLock]_vars

InitStatusLockSpec ==
    /\ StatusLockInit
    /\ StatusIdle /\ ManagerIdle /\ RootIdle /\ WebhookIdle /\ HydratorIdle /\ ParserIdle
    /\ ReconcileLockIdle /\ NotificationIdle /\ RetryIdle
OnlyStatusLock ==
    UNCHANGED <<statusVars, managerVars, rootVars, webhookVars, hydratorVars, parserVars, reconcileLockVars, notificationVars, retryVars>>
NextStatusLock ==
    \/ CallStatusWrite /\ OnlyStatusLock
    \/ LockStatusWrite /\ OnlyStatusLock
    \/ CallPrepend /\ OnlyStatusLock
    \/ FetchStatus /\ OnlyStatusLock
    \/ UpdateStatus /\ OnlyStatusLock
    \/ ReturnStatusWrite /\ OnlyStatusLock
SpecStatusLock == InitStatusLockSpec /\ [][NextStatusLock]_vars

InitNotificationSpec ==
    /\ NotificationInit
    /\ StatusIdle /\ ManagerIdle /\ RootIdle /\ WebhookIdle /\ HydratorIdle /\ ParserIdle
    /\ ReconcileLockIdle /\ StatusLockIdle /\ RetryIdle
OnlyNotification ==
    UNCHANGED <<statusVars, managerVars, rootVars, webhookVars, hydratorVars, parserVars, reconcileLockVars, statusLockVars, retryVars>>
NextNotification ==
    \/ Subscribe /\ OnlyNotification
    \/ SyncedCommit /\ OnlyNotification
    \/ ProcessResource /\ OnlyNotification
    \/ EventCallback /\ OnlyNotification
SpecNotification == InitNotificationSpec /\ [][NextNotification]_vars

InitRetryLoopSpec ==
    /\ RetryInit
    /\ StatusIdle /\ ManagerIdle /\ RootIdle /\ WebhookIdle /\ HydratorIdle /\ ParserIdle
    /\ ReconcileLockIdle /\ StatusLockIdle /\ NotificationIdle
OnlyRetryLoop ==
    UNCHANGED <<statusVars, managerVars, rootVars, webhookVars, hydratorVars, parserVars, reconcileLockVars, statusLockVars, notificationVars>>
NextRetryLoop ==
    \/ CallStatusUpdate /\ OnlyRetryLoop
    \/ TryUpdate /\ OnlyRetryLoop
\* Every call runs on: the function calls itself at once after a 413.
SpecRetryLoop ==
    /\ InitRetryLoopSpec /\ [][NextRetryLoop]_vars
    /\ WF_vars(TryUpdate /\ OnlyRetryLoop)

\* The manager of one RepoSync that is created and deleted while the manager
\* may restart; Reconcile runs on for every event and every requeue.
OnlyManager ==
    UNCHANGED <<statusVars, rootVars, webhookVars, hydratorVars, parserVars, reconcileLockVars, statusLockVars, notificationVars, retryVars>>
NextRestart ==
    \/ ReconcileRepoSync /\ OnlyManager
    \/ CreateRepoSync /\ OnlyManager
    \/ DeleteRepoSync /\ OnlyManager
    \/ RestartManager /\ OnlyManager
SpecRestart ==
    /\ InitDeploymentSpec /\ [][NextRestart]_vars
    /\ WF_vars(ReconcileRepoSync /\ OnlyManager)
    /\ SF_vars(ReconcileRepoSync /\ ~lastRec'.err /\ OnlyManager)
====
